---- MODULE Spec2Model ----
(***************************************************************************)
(* World_in_AR: the three React tracker components                         *)
(*   src/src/components/location.jsx    LocationTracker                    *)
(*   src/src/components/compass.jsx     CompassTracker                     *)
(*   src/src/components/GpsTracker.jsx  UltraFastGpsTracker                *)
(* as state machines.  The components share no state, so a behaviour       *)
(* follows one mounted component (variable mounted): the reachable states  *)
(* are the union of the three components' states, not their product.       *)
(*                                                                         *)
(* Numbers.  A JavaScript value that the code treats as a number is a      *)
(* record [k, v]: k = "num" with the integer v, or one of "undef" (absent),*)
(* "null", "nan", "inf", "ninf".  Coordinates are fixed-point integers; a quotient *)
(* is the floor of the exact quotient.  Times are milliseconds.            *)
(***************************************************************************)
EXTENDS Integers, Sequences, FiniteSets, TLC

VARIABLES
    mounted,             \* "none" | "location" | "compass" | "gps"
    phase,               \* "idle" | "running" | "stopped" | "unsupported"
    now,                 \* Date.now(), ms since the mount, capped at MaxTime
    sinceTick,           \* ms since the interval callback last ran, capped at TickMs
    out,                 \* what the most recent handler gave the consumer
                         \* (at: the clock reading of the tick that gave it)
    nFixes,              \* fixes delivered so far (model bound)
    nSensorEvents,       \* orientation and motion events delivered so far (model bound)
    \* ---- refs and state of the mounted component, under the source's names:
    \* LocationTracker (location.jsx 4-9), UltraFastGpsTracker (GpsTracker.jsx
    \* 4-70), CompassTracker (compass.jsx 3-17)
    watchIdRef,
    intervalIdRef,
    updateCountRef,
    positionHistoryRef,
    lastPositionRef,
    lastGpsUpdateRef,
    compassHistoryRef,
    imuHistoryRef,
    satelliteHistoryRef,
    sensorsActiveRef,
    imuFilterRef,
    kalmanFilterRef,
    location,            \* CompassTracker's prop, UltraFastGpsTracker's state
    error,               \* UltraFastGpsTracker's state: 0 for null, else 1 + the code
    isLoading,
    debugInfo,
    deviceSensors,
    compassData,
    \* ---- the platform
    permission,          \* DeviceOrientationEvent.requestPermission(): "none",
                         \* "pending" or "settled"; in UltraFastGpsTracker,
                         \* whose sensor effect runs again, also "missing"
                         \* and "plain" for a platform without it
    orientationListener, \* handleOrientation is registered on window
    motionListener,      \* handleMotion is registered on window
    initialTimer,        \* the 2 s setTimeout: "none", "pending" or "fired"
    watchActive,         \* the platform still holds the position watch
    intervalActive,      \* the platform still holds the interval timer
    lastAcceptedAt,      \* ghost: clock reading of the last accepted fix, -1 if none
    errorSurfaced        \* ghost: onError was given PERMISSION_DENIED or
                         \* POSITION_UNAVAILABLE

locVars == <<watchIdRef, intervalIdRef, updateCountRef, positionHistoryRef,
             lastPositionRef, lastGpsUpdateRef, watchActive, intervalActive,
             lastAcceptedAt, errorSurfaced>>

sensorVars == <<compassHistoryRef, imuHistoryRef, satelliteHistoryRef,
                sensorsActiveRef, imuFilterRef, location, deviceSensors,
                compassData, permission, orientationListener, motionListener,
                initialTimer, nSensorEvents>>

gpsVars == <<kalmanFilterRef, error, isLoading, debugInfo>>

vars == <<mounted, phase, now, sinceTick, out, nFixes, locVars, sensorVars, gpsVars>>

-----------------------------------------------------------------------------
(* Bounds of the model *)

MaxFixes == 2
MaxTime == 200
MaxSensorEvents == 2
\* insertions into one history buffer in a long session
MaxInsertions == 52
MaxCalls == 2
\* fixes and clock readings of a session with degraded periods
MaxDegradedFixes == 4
MaxDegradedTime == 400
\* compass updates and clock readings of a session with satellite snapshots
MaxSnapshots == 4
MaxSnapshotTime == 600000

(* Program constants *)

TickMs == 100
PredictMinMs == 100
HistoryCap == 20
SmoothK == 10
PERMISSION_DENIED == 1
POSITION_UNAVAILABLE == 2
TIMEOUT == 3
NullId == -1
CompassHistoryCap == 10
ImuHistoryCap == 50
GpsImuHistoryCap == 20
SatelliteHistoryCap == 30
GpsPositionHistoryCap == 100
CalibrationWindow == 10
CalibratedBelow == 5
LatToMeters == 111320
MoveThresholdMm == 500

\* coordinates are fixed-point: units of a millionth of a degree
UnitsPerDegree == 1000000

\* the clock is read every half tick period
TimeStep == TickMs \div 2

\* GeolocationPositionError codes; 0 stands for a code the switch does not name
ErrorCodes == 0 .. 3

\* what watchPosition may return (a long) and what setInterval may return (an
\* integer greater than zero); the code only tests whether an id is truthy
WatchIds == {0, 1}
IntervalIds == {1}

Min(a, b) == IF a <= b THEN a ELSE b
Max(a, b) == IF a >= b THEN a ELSE b

-----------------------------------------------------------------------------
(* JavaScript numbers *)

Num(n) == [k |-> "num", v |-> n]
NaN == [k |-> "nan", v |-> 0]
Undefined == [k |-> "undef", v |-> 0]
Infinity == [k |-> "inf", v |-> 0]
NegInfinity == [k |-> "ninf", v |-> 0]
JsNull == [k |-> "null", v |-> 0]

\* !x for a value used as a number: undefined, null, NaN and 0 are falsy
Falsy(x) == x.k \in {"undef", "null", "nan"} \/ (x.k = "num" /\ x.v = 0)

\* the global isNaN(x): x is coerced to a number first (null to 0)
IsNaN(x) == x.k \in {"undef", "nan"}

IsFinite(x) == x.k = "num"

\* the coercion arithmetic applies to an operand
ToNumber(x) ==
    CASE x.k = "null" -> Num(0)
      [] x.k = "undef" -> NaN
      [] OTHER -> x

VNeg(x) ==
    LET a == ToNumber(x)
    IN  CASE a.k = "num" -> Num(0 - a.v)
          [] a.k = "inf" -> NegInfinity
          [] a.k = "ninf" -> Infinity
          [] OTHER -> NaN

VAdd(x, y) ==
    LET a == ToNumber(x)
        b == ToNumber(y)
    IN  IF a.k = "nan" \/ b.k = "nan" THEN NaN
        ELSE IF a.k = "num" /\ b.k = "num" THEN Num(a.v + b.v)
        ELSE IF a.k = "num" THEN b
        ELSE IF b.k = "num" THEN a
        ELSE IF a.k = b.k THEN a
        ELSE NaN

\* a difference with the sign of its second operand lost
VSubAsAdd(a, b) == VAdd(a, b)

VSub(a, b) == VAdd(a, VNeg(b))

\* x * (n / d), d > 0
VMulRat(x, n, d) ==
    LET a == ToNumber(x)
    IN  IF a.k = "nan" THEN NaN
        ELSE IF a.k = "num" THEN Num((a.v * n) \div d)
        ELSE IF n = 0 THEN NaN
        ELSE IF n > 0 THEN a
        ELSE VNeg(a)

-----------------------------------------------------------------------------
(* Trigonometry.  Angles are whole degrees (half degrees inside atan2);     *)
(* sines and cosines are in thousandths.                                     *)

\* 1000 * sin(k / 2 degrees), k = 0 .. 180
SinHalfTable ==
    <<
          0,    9,   17,   26,   35,   44,   52,   61,   70,   78,   87,   96,
        105,  113,  122,  131,  139,  148,  156,  165,  174,  182,  191,  199,
        208,  216,  225,  233,  242,  250,  259,  267,  276,  284,  292,  301,
        309,  317,  326,  334,  342,  350,  358,  367,  375,  383,  391,  399,
        407,  415,  423,  431,  438,  446,  454,  462,  469,  477,  485,  492,
        500,  508,  515,  522,  530,  537,  545,  552,  559,  566,  574,  581,
        588,  595,  602,  609,  616,  623,  629,  636,  643,  649,  656,  663,
        669,  676,  682,  688,  695,  701,  707,  713,  719,  725,  731,  737,
        743,  749,  755,  760,  766,  772,  777,  783,  788,  793,  799,  804,
        809,  814,  819,  824,  829,  834,  839,  843,  848,  853,  857,  862,
        866,  870,  875,  879,  883,  887,  891,  895,  899,  903,  906,  910,
        914,  917,  921,  924,  927,  930,  934,  937,  940,  943,  946,  948,
        951,  954,  956,  959,  961,  964,  966,  968,  970,  972,  974,  976,
        978,  980,  982,  983,  985,  986,  988,  989,  990,  991,  993,  994,
        995,  995,  996,  997,  998,  998,  999,  999,  999, 1000, 1000, 1000,
       1000
    >>

\* 1000 * sin of h half degrees, any integer h
SinHalf(h) ==
    LET r == h % 720
    IN  IF r <= 180 THEN SinHalfTable[r + 1]
        ELSE IF r <= 360 THEN SinHalfTable[360 - r + 1]
        ELSE IF r <= 540 THEN 0 - SinHalfTable[r - 360 + 1]
        ELSE 0 - SinHalfTable[720 - r + 1]

\* 1000 * Math.sin(d * Math.PI / 180) and 1000 * Math.cos(d * Math.PI / 180)
SinMilli(d) == SinHalf(2 * d)
CosMilli(d) == SinHalf(2 * d + 180)

Abs(x) == IF x < 0 THEN 0 - x ELSE x

\* Math.atan2(y, x) * 180 / Math.PI to the nearest degree, in -179 .. 180:
\* the angle of (|x|, |y|) is the number of half-degree marks at or below it
\* (the marks k - 1/2 degrees, k = 1 .. 90, found by bisection between lo and hi)
RECURSIVE MarksBelow(_, _, _, _)
MarksBelow(lo, hi, y, x) ==
    LET k == (lo + hi + 1) \div 2
    IN  IF lo = hi THEN lo
        ELSE IF y * SinHalf(2 * k - 1 + 180) >= x * SinHalf(2 * k - 1)
        THEN MarksBelow(k, hi, y, x)
        ELSE MarksBelow(lo, k - 1, y, x)

Atan2Deg(y, x) ==
    IF y = 0 /\ x = 0 THEN 0
    ELSE LET a == MarksBelow(0, 90, Abs(y), Abs(x))
         IN  IF x >= 0 THEN (IF y >= 0 THEN a ELSE 0 - a)
             ELSE IF y >= 0 THEN 180 - a
             ELSE IF a = 0 THEN 180 ELSE a - 180

\* Math.sqrt of n, 0 <= n < 4096 * 4096, rounded down
RECURSIVE SqrtBits(_, _, _)
SqrtBits(n, r, bit) ==
    IF bit = 0 THEN r
    ELSE IF (r + bit) * (r + bit) <= n THEN SqrtBits(n, r + bit, bit \div 2)
    ELSE SqrtBits(n, r, bit \div 2)

Sqrt(n) == SqrtBits(n, 0, 2048)

-----------------------------------------------------------------------------
(* LocationTracker: the pure functions *)

\* 10.0 / Math.max(accuracy, 1) without the cap of 0.5
SmoothingFactorUncapped(accuracy) ==
    IF IsNaN(accuracy) THEN [k |-> "nan", n |-> 0, d |-> 1]
    ELSE IF accuracy.k = "inf" THEN [k |-> "rat", n |-> 0, d |-> 1]
    ELSE [k |-> "rat", n |-> SmoothK,
          d |-> IF accuracy.k = "ninf" THEN 1 ELSE Max(accuracy.v, 1)]

\* Math.min(0.5, 10.0 / Math.max(accuracy, 1)) as a fraction n/d, or NaN
SmoothingFactor(accuracy) ==
    IF IsNaN(accuracy) THEN [k |-> "nan", n |-> 0, d |-> 1]
    ELSE IF accuracy.k = "inf" THEN [k |-> "rat", n |-> 0, d |-> 1]
    ELSE LET m == IF accuracy.k = "ninf" THEN 1 ELSE Max(accuracy.v, 1)
         IN  IF 2 * SmoothK >= m THEN [k |-> "rat", n |-> 1, d |-> 2]
             ELSE [k |-> "rat", n |-> SmoothK, d |-> m]

\* previous * (1 - f) + raw * f
Blend(previous, raw, f) ==
    IF f.k = "nan" THEN NaN
    ELSE IF previous.k = "num" /\ raw.k = "num"
         THEN Num((previous.v * (f.d - f.n) + raw.v * f.n) \div f.d)
    ELSE VAdd(VMulRat(previous, f.d - f.n, f.d), VMulRat(raw, f.n, f.d))

NoLocation ==
    [set |-> FALSE, latitude |-> JsNull, longitude |-> JsNull, accuracy |-> JsNull]

NoPosition ==
    [set |-> FALSE, latitude |-> Undefined, longitude |-> Undefined,
     timestamp |-> 0, accuracy |-> Undefined]

smoothPosition(newPos, previousPos, accuracy) ==
    LET raw == [latitude |-> newPos.latitude, longitude |-> newPos.longitude]
    IN
    IF ~previousPos.set \/ Falsy(newPos.latitude) \/ Falsy(newPos.longitude)
    THEN raw
    ELSE IF IsNaN(newPos.latitude) \/ IsNaN(newPos.longitude)
    THEN [latitude |-> previousPos.latitude, longitude |-> previousPos.longitude]
    ELSE LET f == SmoothingFactor(accuracy)
             smoothedLat == Blend(previousPos.latitude, newPos.latitude, f)
             smoothedLon == Blend(previousPos.longitude, newPos.longitude, f)
         IN  IF IsNaN(smoothedLat) \/ IsNaN(smoothedLon)
             THEN raw
             ELSE [latitude |-> smoothedLat, longitude |-> smoothedLon]

\* any displacement counts as movement
MovedAtAll(distanceSq) == distanceSq >= 0

\* distance > 0.5, on the squares, in mm
MovedSignificantly(distanceSq) == distanceSq > MoveThresholdMm * MoveThresholdMm

NoMovement == [gpsHeading |-> JsNull, calculatedSpeed |-> 0, distance |-> 0]

\* calculateMovementMetrics(currentPos, previousPos) for positions with finite
\* coordinates: gpsHeading in degrees, calculatedSpeed in mm/s, distance in mm
calculateMovementMetrics(currentPos, previousPos) ==
    IF \/ ~previousPos.set
       \/ Falsy(currentPos.latitude) \/ Falsy(currentPos.longitude)
       \/ Falsy(previousPos.latitude) \/ Falsy(previousPos.longitude)
    THEN NoMovement
    ELSE LET deltaLat == currentPos.latitude.v - previousPos.latitude.v
             deltaLon == currentPos.longitude.v - previousPos.longitude.v
             deltaMs == currentPos.timestamp - previousPos.timestamp
         IN  IF deltaMs <= 0 THEN NoMovement
             ELSE LET \* mm per unit: 111320 m per degree
                      deltaLatM == (deltaLat * (LatToMeters \div 10)) \div (UnitsPerDegree \div 10000)
                      deltaLonM == (deltaLon * (LatToMeters \div 10)
                                       * CosMilli(currentPos.latitude.v \div UnitsPerDegree))
                                   \div ((UnitsPerDegree \div 10000) * 1000)
                      distanceSq == deltaLatM * deltaLatM + deltaLonM * deltaLonM
                      distance == Sqrt(distanceSq)
                      atan == Atan2Deg(deltaLonM, deltaLatM)
                  IN  [gpsHeading |-> IF MovedSignificantly(distanceSq)
                                      THEN Num(IF atan < 0 THEN atan + 360 ELSE atan)
                                      ELSE JsNull,
                       calculatedSpeed |-> (distance * 1000) \div deltaMs,
                       distance |-> distance]

\* a coordinate check that only looks for absent fields
ValidCoordsPresenceOnly(coords) ==
    coords.latitude.k # "undef" /\ coords.longitude.k # "undef"

\* the coordinate check of processGPSPosition
ValidCoords(coords) ==
    ~(Falsy(coords.latitude) \/ Falsy(coords.longitude)
      \/ IsNaN(coords.latitude) \/ IsNaN(coords.longitude))

\* what a handler gave the consumer: nothing, onUpdate(locationData) or onError
NoOutput(op) ==
    [op |-> op, kind |-> "none", at |-> 0, predicted |-> FALSE,
     isRealGPS |-> FALSE, latitude |-> Undefined, longitude |-> Undefined,
     accuracyMilli |-> Undefined, updateCount |-> 0, code |-> 0,
     deviceHeading |-> JsNull, imuHeading |-> JsNull]

ErrorOutput(op, code) == [NoOutput(op) EXCEPT !.kind = "error", !.code = code]

\* a buffer that drops the new entry once it is full
PushCappedDropNewest(history, entry, cap) ==
    IF Len(history) >= cap THEN history ELSE Append(history, entry)

\* array.push(entry) followed by shift() when longer than cap
PushCapped(history, entry, cap) ==
    LET pushed == Append(history, entry)
    IN  IF Len(pushed) > cap THEN Tail(pushed) ELSE pushed

\* the freshness comparison turned round
StillFreshInverted(timeSinceLastGPS) == timeSinceLastGPS > PredictMinMs

\* the real fix is still fresh: predictPosition returns null
StillFresh(timeSinceLastGPS) == timeSinceLastGPS < PredictMinMs

\* a prediction that repeats the last position and looks at nothing else
predictPositionUnchecked ==
    [NoOutput("tick") EXCEPT !.kind = "update", !.predicted = TRUE,
                             !.latitude = lastPositionRef.latitude,
                             !.longitude = lastPositionRef.longitude,
                             !.updateCount = updateCountRef]

\* predictPosition: the predicted locationData, or NoOutput for null
predictPosition ==
    IF ~lastPositionRef.set \/ Len(positionHistoryRef) < 2
    THEN NoOutput("tick")
    ELSE LET timeSinceLastGPS == now - lastGpsUpdateRef
             latest == positionHistoryRef[Len(positionHistoryRef)]
             previous == positionHistoryRef[Len(positionHistoryRef) - 1]
             deltaMs == latest.timestamp - previous.timestamp
         IN  IF StillFresh(timeSinceLastGPS) THEN NoOutput("tick")
             ELSE IF deltaMs <= 0 THEN NoOutput("tick")
             ELSE LET predictedLat ==
                          VAdd(latest.lat,
                               VMulRat(VSub(latest.lat, previous.lat),
                                       timeSinceLastGPS, deltaMs))
                      predictedLon ==
                          VAdd(latest.lon,
                               VMulRat(VSub(latest.lon, previous.lon),
                                       timeSinceLastGPS, deltaMs))
                  IN  IF IsNaN(predictedLat) \/ IsNaN(predictedLon)
                      THEN NoOutput("tick")
                      ELSE [op |-> "tick", kind |-> "update", at |-> 0,
                            predicted |-> TRUE, isRealGPS |-> FALSE,
                            latitude |-> predictedLat,
                            longitude |-> predictedLon,
                            accuracyMilli |->
                                VMulRat(lastPositionRef.accuracy,
                                        1000 + timeSinceLastGPS, 1),
                            updateCount |-> updateCountRef, code |-> 0,
                            deviceHeading |-> JsNull, imuHeading |-> JsNull]

-----------------------------------------------------------------------------
(* LocationTracker: the inputs *)

Coords(lat, lon, acc) == [latitude |-> lat, longitude |-> lon, accuracy |-> acc]

\* the fixes the position watch may deliver
FixInputs ==
    { Coords(Num(64), Num(32), Num(5)),
      Coords(Num(128), Num(96), Num(40)),
      Coords(Num(0), Num(32), Num(5)),
      Coords(NaN, Num(32), Num(5)),
      Coords(Num(64), Undefined, Num(5)),
      Coords(Infinity, Num(32), Num(5)),
      Coords(Num(192), Num(32), NaN),
      Coords(Num(64), Num(160), Undefined) }

\* the fixes UltraFastGpsTracker is given
GpsFixInputs ==
    { Coords(Num(64), Num(32), Num(5)),
      Coords(Num(128), Num(96), Num(40)),
      Coords(NaN, Num(32), Num(5)) }

Truthy(id) == id # NullId /\ id # 0

-----------------------------------------------------------------------------
(* LocationTracker: the effect, its handlers and its cleanup *)

Init ==
    /\ mounted = "none"
    /\ phase = "idle"
    /\ now = 0
    /\ sinceTick = 0
    /\ out = NoOutput("init")
    /\ nFixes = 0
    /\ watchIdRef = NullId
    /\ intervalIdRef = NullId
    /\ updateCountRef = 0
    /\ positionHistoryRef = <<>>
    /\ lastPositionRef = NoPosition
    /\ lastGpsUpdateRef = 0
    /\ watchActive = FALSE
    /\ intervalActive = FALSE
    /\ lastAcceptedAt = -1
    /\ errorSurfaced = FALSE
    /\ nSensorEvents = 0
    /\ compassHistoryRef = <<>>
    /\ imuHistoryRef = <<>>
    /\ satelliteHistoryRef = <<>>
    /\ sensorsActiveRef = FALSE
    /\ imuFilterRef = [orientationSet |-> FALSE, linearAccelerationSet |-> FALSE,
                       yaw |-> 0, calibrated |-> FALSE]
    /\ kalmanFilterRef = [initialized |-> FALSE, position |-> <<Undefined, Undefined>>,
                          velocity |-> <<Undefined, Undefined>>]
    /\ location = NoLocation
    /\ error = 0
    /\ isLoading = TRUE
    /\ debugInfo = ""
    /\ deviceSensors = [orientationSet |-> FALSE, accelerationSet |-> FALSE,
                        compassCalibrated |-> FALSE, permissionGranted |-> FALSE]
    /\ compassData = [deviceCompass |-> JsNull, fusedHeading |-> JsNull]
    /\ permission = "none"
    /\ orientationListener = FALSE
    /\ motionListener = FALSE
    /\ initialTimer = "none"

\* useEffect body: navigator.geolocation missing, or watchPosition + setInterval
LocationMount(supported, wid, iid) ==
    /\ mounted = "none"
    /\ mounted' = "location"
    /\ IF ~supported
       THEN /\ phase' = "unsupported"
            /\ out' = ErrorOutput("mount", 0)
            /\ UNCHANGED <<watchIdRef, intervalIdRef, watchActive, intervalActive>>
       ELSE /\ phase' = "running"
            /\ out' = NoOutput("mount")
            /\ watchIdRef' = wid
            /\ intervalIdRef' = iid
            /\ watchActive' = TRUE
            /\ intervalActive' = TRUE
    /\ UNCHANGED <<now, sinceTick, nFixes, updateCountRef, positionHistoryRef,
                   lastPositionRef, lastGpsUpdateRef, lastAcceptedAt, errorSurfaced>>
    /\ UNCHANGED <<sensorVars, gpsVars>>

\* processGPSPosition on an accepted fix: the refs it writes and its locationData
ProcessAccepted(coords) ==
    LET smoothed == smoothPosition(
                        [latitude |-> coords.latitude, longitude |-> coords.longitude],
                        lastPositionRef, coords.accuracy)
        positionEntry == [lat |-> smoothed.latitude, lon |-> smoothed.longitude,
                          accuracy |-> coords.accuracy, timestamp |-> now]
    IN  /\ updateCountRef' = updateCountRef + 1
        /\ lastGpsUpdateRef' = now
        /\ positionHistoryRef' = PushCapped(positionHistoryRef, positionEntry, HistoryCap)
        /\ lastPositionRef' = [set |-> TRUE, latitude |-> smoothed.latitude,
                               longitude |-> smoothed.longitude,
                               timestamp |-> now, accuracy |-> coords.accuracy]
        /\ out' = [op |-> "fix", kind |-> "update", at |-> 0,
                   predicted |-> FALSE, isRealGPS |-> TRUE,
                   latitude |-> smoothed.latitude, longitude |-> smoothed.longitude,
                   accuracyMilli |-> VMulRat(coords.accuracy, 1000, 1),
                   updateCount |-> updateCountRef + 1, code |-> 0,
                   deviceHeading |-> JsNull, imuHeading |-> JsNull]
        /\ lastAcceptedAt' = now

\* a rejected fix that is counted before it is looked at
ProcessRejectedCounted ==
    /\ out' = NoOutput("fix")
    /\ updateCountRef' = updateCountRef + 1
    /\ UNCHANGED <<lastGpsUpdateRef, positionHistoryRef, lastPositionRef, lastAcceptedAt>>

\* processGPSPosition on a rejected fix: return null, nothing written
ProcessRejected ==
    /\ out' = NoOutput("fix")
    /\ UNCHANGED <<updateCountRef, lastGpsUpdateRef, positionHistoryRef,
                   lastPositionRef, lastAcceptedAt>>

\* handleSuccess: the watch delivers a fix
HandleSuccessStep(coords) ==
    /\ mounted = "location"
    /\ watchActive
    /\ nFixes' = nFixes + 1
    /\ IF ValidCoords(coords) THEN ProcessAccepted(coords) ELSE ProcessRejected
    /\ UNCHANGED <<mounted, phase, now, sinceTick, watchIdRef, intervalIdRef,
                   watchActive, intervalActive, errorSurfaced>>
    /\ UNCHANGED <<sensorVars, gpsVars>>

\* a fix within the bounds of the session
HandleSuccess(coords) ==
    /\ nFixes < MaxFixes
    /\ now + PredictMinMs <= MaxTime
    /\ HandleSuccessStep(coords)

\* the TIMEOUT case without its return
ReportsErrorAlways(code) == TRUE

\* the switch of handleError: TIMEOUT returns before onError
ReportsError(code) == code # TIMEOUT

\* handleError: the watch reports an error
HandleError(code) ==
    /\ mounted = "location"
    /\ watchActive
    /\ out' = IF ReportsError(code)
              THEN ErrorOutput("error", code)
              ELSE [NoOutput("error") EXCEPT !.code = code]
    /\ errorSurfaced' = (errorSurfaced \/ (ReportsError(code) /\
                             code \in {PERMISSION_DENIED, POSITION_UNAVAILABLE}))
    /\ UNCHANGED <<mounted, phase, now, sinceTick, nFixes, watchIdRef,
                   intervalIdRef, updateCountRef, positionHistoryRef,
                   lastPositionRef, lastGpsUpdateRef, watchActive,
                   intervalActive, lastAcceptedAt>>
    /\ UNCHANGED <<sensorVars, gpsVars>>

\* the setInterval callback
Tick ==
    /\ mounted = "location"
    /\ intervalActive
    /\ sinceTick >= TickMs
    /\ sinceTick' = 0
    /\ out' = [(IF lastPositionRef.set THEN predictPosition ELSE NoOutput("tick"))
               EXCEPT !.at = now]
    /\ UNCHANGED <<mounted, phase, now, nFixes, locVars>>
    /\ UNCHANGED <<sensorVars, gpsVars>>

\* the effect's cleanup
Teardown ==
    /\ mounted = "location"
    /\ phase = "running"
    /\ phase' = "stopped"
    /\ IF Truthy(watchIdRef)
       THEN watchActive' = FALSE /\ watchIdRef' = NullId
       ELSE UNCHANGED <<watchActive, watchIdRef>>
    /\ IF Truthy(intervalIdRef)
       THEN intervalActive' = FALSE /\ intervalIdRef' = NullId
       ELSE UNCHANGED <<intervalActive, intervalIdRef>>
    /\ out' = NoOutput("teardown")
    /\ UNCHANGED <<mounted, now, sinceTick, nFixes, updateCountRef,
                   positionHistoryRef, lastPositionRef, lastGpsUpdateRef,
                   lastAcceptedAt, errorSurfaced>>
    /\ UNCHANGED <<sensorVars, gpsVars>>

\* time passes; past MaxTime the clock reading stays, the interval still comes due
Advance ==
    \* the interval and the freshness test of LocationTracker are what the
    \* clock decides; the other components read it only to label their entries
    /\ mounted = "location"
    /\ now' = Min(now + TimeStep, MaxTime)
    /\ sinceTick' = IF intervalActive THEN Min(sinceTick + TimeStep, TickMs) ELSE sinceTick
    /\ UNCHANGED <<mounted, phase, out, nFixes, locVars>>
    /\ UNCHANGED <<sensorVars, gpsVars>>

-----------------------------------------------------------------------------
(* The device sensors: inputs and helpers shared by CompassTracker and       *)
(* UltraFastGpsTracker.  A behaviour follows one run of a component's        *)
(* effects, from the mount to the cleanup and what the platform still        *)
(* delivers after it.                                                        *)

\* deviceorientation events: alpha (null when the device has no reading) and
\* webkitCompassHeading (undefined outside WebKit)
OrientationInputs ==
    { [alpha |-> JsNull, webkitCompassHeading |-> Undefined],
      [alpha |-> Num(90), webkitCompassHeading |-> Undefined],
      [alpha |-> Num(0), webkitCompassHeading |-> Undefined],
      [alpha |-> Num(10), webkitCompassHeading |-> Num(350)] }

\* devicemotion events: whether acceleration and rotationRate are present,
\* whether 0.5 < |acceleration| < 15, and the rotation about the z axis that
\* rotationRate * dt amounts to, in degrees
MotionInputs ==
    { [acceleration |-> FALSE, rotationRate |-> TRUE, gravityRange |-> FALSE, yawStep |-> 90],
      [acceleration |-> TRUE, rotationRate |-> FALSE, gravityRange |-> FALSE, yawStep |-> 0],
      [acceleration |-> TRUE, rotationRate |-> TRUE, gravityRange |-> FALSE, yawStep |-> 90],
      [acceleration |-> TRUE, rotationRate |-> TRUE, gravityRange |-> TRUE, yawStep |-> 90] }

\* the events UltraFastGpsTracker is given
GpsOrientationInputs ==
    { [alpha |-> JsNull, webkitCompassHeading |-> Undefined],
      [alpha |-> Num(10), webkitCompassHeading |-> Num(350)] }

GpsMotionInputs ==
    { [acceleration |-> FALSE, rotationRate |-> TRUE, gravityRange |-> FALSE, yawStep |-> 90],
      [acceleration |-> TRUE, rotationRate |-> TRUE, gravityRange |-> TRUE, yawStep |-> 90] }

\* DeviceOrientationEvent: not defined, defined without requestPermission, or
\* defined with it
SensorApis == {"missing", "plain", "permission"}

\* how the permission promise settles
PermissionResults == {"granted", "denied", "rejected"}

\* the location prop CompassTracker may be given
LocationProps ==
    { NoLocation,
      [set |-> TRUE, latitude |-> Num(64), longitude |-> Num(32), accuracy |-> Num(5)] }

RECURSIVE SumSeq(_)
SumSeq(q) == IF q = <<>> THEN 0 ELSE Head(q).v + SumSeq(Tail(q))

\* reduce((sum, val) => sum + val, 0) / length
MeanOf(history) == Num(SumSeq(history) \div Len(history))

\* webkitHeading !== undefined ? webkitHeading : (360 - rawHeading)
DeviceCompass(event) ==
    IF event.webkitCompassHeading # Undefined
    THEN event.webkitCompassHeading
    ELSE VSub(Num(360), event.alpha)

LastN(q, n) == SubSeq(q, Max(1, Len(q) - n + 1), Len(q))

RECURSIVE NonNullHeadings(_)
NonNullHeadings(q) ==
    IF q = <<>> THEN <<>>
    ELSE IF Head(q).heading = JsNull THEN NonNullHeadings(Tail(q))
    ELSE <<Head(q).heading>> \o NonNullHeadings(Tail(q))

RECURSIVE SumSquares(_)
SumSquares(q) == IF q = <<>> THEN 0 ELSE Head(q).v * Head(q).v + SumSquares(Tail(q))

\* calculateHeadingVariance(readings) < limit: the standard deviation of the
\* non-null headings, 0 when fewer than two
HeadingVarianceBelow(readings, limit) ==
    LET headings == NonNullHeadings(readings)
        n == Len(headings)
    IN  IF Len(readings) < 2 \/ n < 2 THEN 0 < limit
        ELSE n * SumSquares(headings) - SumSeq(headings) * SumSeq(headings)
                 < limit * limit * n * n

-----------------------------------------------------------------------------
(* CompassTracker *)

\* processCompassData(deviceCompass): nothing without a location, else a
\* satellite snapshot is stored and compassData is given to onUpdate
ProcessCompassData(deviceCompass, op) ==
    IF ~location.set
    THEN /\ out' = NoOutput(op)
         /\ UNCHANGED satelliteHistoryRef
    ELSE /\ satelliteHistoryRef' =
                PushCapped(satelliteHistoryRef, [timestamp |-> now], SatelliteHistoryCap)
         /\ out' = [NoOutput(op) EXCEPT
                        !.kind = "update",
                        !.deviceHeading = deviceCompass,
                        !.imuHeading = IF Len(imuHistoryRef) > 0
                                       THEN imuHistoryRef[Len(imuHistoryRef)].heading
                                       ELSE JsNull]

\* useEffect body: initializeSensors() up to its await
CompassMount(loc, api) ==
    /\ mounted = "none"
    /\ mounted' = "compass"
    /\ phase' = "running"
    /\ location' = loc
    /\ CASE api = "missing" ->
              /\ out' = ErrorOutput("mount", 0)
              /\ UNCHANGED <<permission, orientationListener, motionListener, initialTimer>>
         [] api = "plain" ->
              /\ out' = NoOutput("mount")
              /\ orientationListener' = TRUE
              /\ motionListener' = TRUE
              /\ initialTimer' = "pending"
              /\ UNCHANGED permission
         [] api = "permission" ->
              /\ out' = NoOutput("mount")
              /\ permission' = "pending"
              /\ UNCHANGED <<orientationListener, motionListener, initialTimer>>
    /\ UNCHANGED <<now, sinceTick, nFixes, locVars, gpsVars, compassHistoryRef,
                   imuHistoryRef, satelliteHistoryRef, sensorsActiveRef,
                   imuFilterRef, deviceSensors, compassData, nSensorEvents>>

\* initializeSensors() after its await
CompassPermissionSettles(result) ==
    /\ mounted = "compass"
    /\ permission = "pending"
    /\ permission' = "settled"
    /\ CASE result = "granted" ->
              /\ out' = NoOutput("permission")
              /\ orientationListener' = TRUE
              /\ motionListener' = TRUE
              /\ initialTimer' = "pending"
         [] result = "denied" ->
              /\ out' = ErrorOutput("permission", 0)
              /\ initialTimer' = "pending"
              /\ UNCHANGED <<orientationListener, motionListener>>
         [] result = "rejected" ->
              /\ out' = ErrorOutput("permission", 0)
              /\ UNCHANGED <<orientationListener, motionListener, initialTimer>>
    /\ UNCHANGED <<mounted, phase, now, sinceTick, nFixes, locVars, gpsVars,
                   compassHistoryRef, imuHistoryRef, satelliteHistoryRef,
                   sensorsActiveRef, imuFilterRef, location, deviceSensors,
                   compassData, nSensorEvents>>

\* handleOrientation
CompassOrientationStep(event) ==
    /\ mounted = "compass"
    /\ orientationListener
    /\ nSensorEvents' = nSensorEvents + 1
    /\ IF event.alpha # JsNull
       THEN LET pushed == PushCapped(compassHistoryRef, DeviceCompass(event),
                                     CompassHistoryCap)
            IN  /\ sensorsActiveRef' = TRUE
                /\ compassHistoryRef' = pushed
                /\ imuFilterRef' = [imuFilterRef EXCEPT !.orientationSet = TRUE]
                /\ ProcessCompassData(MeanOf(pushed), "orientation")
       ELSE /\ out' = NoOutput("orientation")
            /\ UNCHANGED <<sensorsActiveRef, compassHistoryRef, imuFilterRef,
                           satelliteHistoryRef>>
    /\ UNCHANGED <<mounted, phase, now, sinceTick, nFixes, locVars, gpsVars,
                   imuHistoryRef, location, deviceSensors, compassData,
                   permission, orientationListener, motionListener, initialTimer>>

CompassOrientation(event) ==
    /\ nSensorEvents < MaxSensorEvents
    /\ CompassOrientationStep(event)

\* processIMUData(acceleration, rotationRate, imuFilterRef.current.orientation):
\* the filter after the call and the heading returned
ProcessIMUData(sample) ==
    LET current == imuFilterRef
        orientation == imuFilterRef.orientationSet
    IN  IF ~current.orientationSet /\ orientation
        THEN [filter |-> [current EXCEPT !.linearAccelerationSet = TRUE],
              heading |-> JsNull]
        ELSE LET turned == IF sample.rotationRate /\ sample.yawStep # 0
                           THEN [current EXCEPT !.yaw = (@ + sample.yawStep) % 360]
                           ELSE current
             IN  IF sample.acceleration /\ sample.gravityRange
                    /\ ~turned.linearAccelerationSet
                 THEN \* current.linearAcceleration is null: the read throws
                      [filter |-> turned, heading |-> JsNull]
                 ELSE [filter |-> turned, heading |-> Num(turned.yaw)]

\* handleMotion
CompassMotionStep(sample) ==
    /\ mounted = "compass"
    /\ motionListener
    /\ nSensorEvents' = nSensorEvents + 1
    /\ out' = NoOutput("motion")
    /\ IF sample.acceleration /\ sample.rotationRate
       THEN LET r == ProcessIMUData(sample)
                pushed == PushCapped(imuHistoryRef,
                                     [heading |-> r.heading, timestamp |-> now],
                                     ImuHistoryCap)
            IN  /\ imuHistoryRef' = pushed
                /\ imuFilterRef' =
                       IF Len(pushed) > CalibrationWindow
                       THEN [r.filter EXCEPT !.calibrated =
                                HeadingVarianceBelow(LastN(pushed, CalibrationWindow),
                                                     CalibratedBelow)]
                       ELSE r.filter
       ELSE UNCHANGED <<imuHistoryRef, imuFilterRef>>
    /\ UNCHANGED <<mounted, phase, now, sinceTick, nFixes, locVars, gpsVars,
                   compassHistoryRef, satelliteHistoryRef, sensorsActiveRef,
                   location, deviceSensors, compassData, permission,
                   orientationListener, motionListener, initialTimer>>

CompassMotion(sample) ==
    /\ nSensorEvents < MaxSensorEvents
    /\ CompassMotionStep(sample)

\* the setTimeout callback of initializeSensors
InitialTimerFires ==
    /\ mounted = "compass"
    /\ initialTimer = "pending"
    /\ initialTimer' = "fired"
    /\ IF location.set /\ ~sensorsActiveRef
       THEN ProcessCompassData(JsNull, "timer")
       ELSE /\ out' = NoOutput("timer")
            /\ UNCHANGED satelliteHistoryRef
    /\ UNCHANGED <<mounted, phase, now, sinceTick, nFixes, locVars, gpsVars,
                   compassHistoryRef, imuHistoryRef, sensorsActiveRef,
                   imuFilterRef, location, deviceSensors, compassData,
                   permission, orientationListener, motionListener, nSensorEvents>>

\* the effect's cleanup: the two removeEventListener calls
CompassTeardown ==
    /\ mounted = "compass"
    /\ phase = "running"
    /\ phase' = "stopped"
    /\ orientationListener' = FALSE
    /\ motionListener' = FALSE
    /\ out' = NoOutput("teardown")
    /\ UNCHANGED <<mounted, now, sinceTick, nFixes, locVars, gpsVars,
                   compassHistoryRef, imuHistoryRef, satelliteHistoryRef,
                   sensorsActiveRef, imuFilterRef, location, deviceSensors,
                   compassData, permission, initialTimer, nSensorEvents>>

-----------------------------------------------------------------------------
(* UltraFastGpsTracker *)

\* Math.min(0.3, 2.0 / Math.max(newPosition.accuracy, 0.5)) as a fraction
KalmanSmoothingFactor(accuracy) ==
    IF IsNaN(accuracy) THEN [k |-> "nan", n |-> 0, d |-> 1]
    ELSE IF accuracy.k = "inf" THEN [k |-> "rat", n |-> 0, d |-> 1]
    ELSE LET a == ToNumber(accuracy)
             \* 2 / max(a, 1/2) >= 3/10 exactly when 3 * max(a, 1/2) <= 20
         IN  IF a.k = "ninf" \/ 3 * a.v <= 20 THEN [k |-> "rat", n |-> 3, d |-> 10]
             ELSE [k |-> "rat", n |-> 2, d |-> a.v]

\* updateKalmanFilter(newPosition): the filter after the call; the position
\* it returns is the filter's position
updateKalmanFilter(newPosition) ==
    LET current == kalmanFilterRef
    IN  IF ~current.initialized
        THEN [initialized |-> TRUE,
              position |-> <<newPosition.latitude, newPosition.longitude>>,
              velocity |-> <<Num(0), Num(0)>>]
        ELSE LET f == KalmanSmoothingFactor(newPosition.accuracy)
                 lat == Blend(current.position[1], newPosition.latitude, f)
                 lon == Blend(current.position[2], newPosition.longitude, f)
             IN  [initialized |-> TRUE,
                  position |-> <<lat, lon>>,
                  \* (newPosition - position) / dt, dt = 0.1
                  velocity |-> <<VMulRat(VSub(newPosition.latitude, lat), 10, 1),
                                 VMulRat(VSub(newPosition.longitude, lon), 10, 1)>>]

\* initializeSensors() up to its await, and the geolocation effect
GpsMount(supported, wid, api) ==
    /\ mounted = "none"
    /\ mounted' = "gps"
    /\ phase' = "running"
    /\ out' = NoOutput("mount")
    /\ CASE api = "missing" ->
              \* DeviceOrientationEvent.requestPermission throws, the catch runs
              /\ permission' = "missing"
              /\ deviceSensors' = [deviceSensors EXCEPT !.permissionGranted = FALSE]
              /\ UNCHANGED <<orientationListener, motionListener>>
         [] api = "plain" ->
              /\ permission' = "plain"
              /\ deviceSensors' = [deviceSensors EXCEPT !.permissionGranted = TRUE]
              /\ orientationListener' = TRUE
              /\ motionListener' = TRUE
         [] api = "permission" ->
              /\ permission' = "pending"
              /\ UNCHANGED <<orientationListener, motionListener, deviceSensors>>
    /\ IF ~supported
       THEN /\ error' = 5
            /\ isLoading' = FALSE
            /\ UNCHANGED <<watchIdRef, watchActive>>
       ELSE /\ watchIdRef' = wid
            /\ watchActive' = TRUE
            /\ UNCHANGED <<error, isLoading>>
    /\ UNCHANGED <<now, sinceTick, nFixes, nSensorEvents, intervalIdRef,
                   updateCountRef, positionHistoryRef, lastPositionRef,
                   lastGpsUpdateRef, intervalActive, lastAcceptedAt,
                   errorSurfaced, compassHistoryRef, imuHistoryRef,
                   satelliteHistoryRef, sensorsActiveRef, imuFilterRef,
                   location, compassData, initialTimer, kalmanFilterRef, debugInfo>>

\* initializeSensors() after its await
GpsPermissionSettles(result) ==
    /\ mounted = "gps"
    /\ permission = "pending"
    /\ permission' = "settled"
    /\ out' = NoOutput("permission")
    /\ CASE result = "granted" ->
              /\ deviceSensors' = [deviceSensors EXCEPT !.permissionGranted = TRUE]
              /\ orientationListener' = TRUE
              /\ motionListener' = TRUE
         [] result = "denied" ->
              UNCHANGED <<deviceSensors, orientationListener, motionListener>>
         [] result = "rejected" ->
              /\ deviceSensors' = [deviceSensors EXCEPT !.permissionGranted = FALSE]
              /\ UNCHANGED <<orientationListener, motionListener>>
    /\ UNCHANGED <<mounted, phase, now, sinceTick, nFixes, locVars, gpsVars,
                   compassHistoryRef, imuHistoryRef, satelliteHistoryRef,
                   sensorsActiveRef, imuFilterRef, location, compassData,
                   initialTimer, nSensorEvents>>

\* handleSuccess
GpsHandleSuccess(coords) ==
    /\ mounted = "gps"
    /\ watchActive
    /\ nFixes < MaxFixes
    /\ nFixes' = nFixes + 1
    /\ LET filter == updateKalmanFilter(coords)
       IN  /\ kalmanFilterRef' = filter
           /\ location' = [set |-> TRUE, latitude |-> filter.position[1],
                           longitude |-> filter.position[2],
                           accuracy |-> coords.accuracy]
    /\ positionHistoryRef' =
           PushCapped(positionHistoryRef,
                      [latitude |-> coords.latitude, longitude |-> coords.longitude,
                       accuracy |-> coords.accuracy],
                      GpsPositionHistoryCap)
    /\ error' = 0
    /\ isLoading' = FALSE
    /\ debugInfo' = "update"
    /\ out' = NoOutput("fix")
    \* the sensor effect depends on [location.latitude, location.longitude]:
    \* while the component is mounted a change runs its cleanup and then
    \* initializeSensors() again
    /\ IF /\ phase = "running"
          /\ \/ location'.latitude # location.latitude
             \/ location'.longitude # location.longitude
       THEN CASE permission = "plain" ->
                   /\ orientationListener' = TRUE
                   /\ motionListener' = TRUE
                   /\ UNCHANGED permission
              [] permission = "missing" ->
                   UNCHANGED <<permission, orientationListener, motionListener>>
              [] OTHER ->
                   /\ permission' = "pending"
                   /\ orientationListener' = FALSE
                   /\ motionListener' = FALSE
       ELSE UNCHANGED <<permission, orientationListener, motionListener>>
    /\ UNCHANGED <<mounted, phase, now, sinceTick, nSensorEvents, watchIdRef,
                   intervalIdRef, updateCountRef, lastPositionRef,
                   lastGpsUpdateRef, watchActive, intervalActive,
                   lastAcceptedAt, errorSurfaced, compassHistoryRef,
                   imuHistoryRef, satelliteHistoryRef, sensorsActiveRef,
                   imuFilterRef, deviceSensors, compassData, initialTimer>>

\* handleError
GpsHandleError(code) ==
    /\ mounted = "gps"
    /\ watchActive
    /\ out' = [NoOutput("error") EXCEPT !.code = code]
    /\ IF code = TIMEOUT
       THEN /\ debugInfo' = "timeout"
            /\ UNCHANGED <<error, isLoading>>
       ELSE /\ error' = 1 + code
            /\ isLoading' = FALSE
            /\ UNCHANGED debugInfo
    /\ UNCHANGED <<mounted, phase, now, sinceTick, nFixes, locVars, sensorVars,
                   kalmanFilterRef>>

\* handleOrientation
GpsOrientation(event) ==
    /\ mounted = "gps"
    /\ orientationListener
    /\ nSensorEvents < MaxSensorEvents
    /\ nSensorEvents' = nSensorEvents + 1
    /\ out' = NoOutput("orientation")
    /\ IF event.alpha # JsNull
       THEN LET pushed == PushCapped(compassHistoryRef, DeviceCompass(event),
                                     CompassHistoryCap)
                smoothedCompass == MeanOf(pushed)
                diff == event.alpha.v - smoothedCompass.v
            IN  /\ compassHistoryRef' = pushed
                /\ deviceSensors' =
                       [deviceSensors EXCEPT
                            !.orientationSet = TRUE,
                            !.compassCalibrated = (diff < 5 /\ 0 - diff < 5)]
                /\ compassData' = [deviceCompass |-> smoothedCompass,
                                   fusedHeading |-> smoothedCompass]
       ELSE UNCHANGED <<compassHistoryRef, deviceSensors, compassData>>
    /\ UNCHANGED <<mounted, phase, now, sinceTick, nFixes, locVars, gpsVars,
                   imuHistoryRef, satelliteHistoryRef, sensorsActiveRef,
                   imuFilterRef, location, permission, orientationListener,
                   motionListener, initialTimer>>

\* handleMotion
GpsMotion(sample) ==
    /\ mounted = "gps"
    /\ motionListener
    /\ nSensorEvents < MaxSensorEvents
    /\ nSensorEvents' = nSensorEvents + 1
    /\ out' = NoOutput("motion")
    /\ IF sample.acceleration
       THEN /\ imuHistoryRef' =
                   PushCapped(imuHistoryRef,
                              [heading |-> JsNull], GpsImuHistoryCap)
            /\ deviceSensors' = [deviceSensors EXCEPT !.accelerationSet = TRUE]
       ELSE UNCHANGED <<imuHistoryRef, deviceSensors>>
    /\ UNCHANGED <<mounted, phase, now, sinceTick, nFixes, locVars, gpsVars,
                   compassHistoryRef, satelliteHistoryRef, sensorsActiveRef,
                   imuFilterRef, location, compassData, permission,
                   orientationListener, motionListener, initialTimer>>

\* the cleanups of the two effects at unmount
GpsTeardown ==
    /\ mounted = "gps"
    /\ phase = "running"
    /\ phase' = "stopped"
    /\ out' = NoOutput("teardown")
    /\ orientationListener' = FALSE
    /\ motionListener' = FALSE
    /\ watchActive' = IF Truthy(watchIdRef) THEN FALSE ELSE watchActive
    /\ UNCHANGED <<mounted, now, sinceTick, nFixes, nSensorEvents, watchIdRef,
                   intervalIdRef, updateCountRef, positionHistoryRef,
                   lastPositionRef, lastGpsUpdateRef, intervalActive,
                   lastAcceptedAt, errorSurfaced, compassHistoryRef,
                   imuHistoryRef, satelliteHistoryRef, sensorsActiveRef,
                   imuFilterRef, location, deviceSensors, compassData,
                   permission, initialTimer, gpsVars>>

Next ==
    \/ \E supported \in BOOLEAN, wid \in WatchIds, iid \in IntervalIds :
           LocationMount(supported, wid, iid)
    \/ \E coords \in FixInputs : HandleSuccess(coords)
    \/ \E code \in ErrorCodes : HandleError(code)
    \/ Tick
    \/ Teardown
    \/ Advance
    \/ \E loc \in LocationProps, api \in SensorApis : CompassMount(loc, api)
    \/ \E result \in PermissionResults : CompassPermissionSettles(result)
    \/ \E event \in OrientationInputs : CompassOrientation(event)
    \/ \E sample \in MotionInputs : CompassMotion(sample)
    \/ InitialTimerFires
    \/ CompassTeardown
    \/ \E supported \in BOOLEAN, wid \in WatchIds, api \in SensorApis :
           GpsMount(supported, wid, api)
    \/ \E result \in PermissionResults : GpsPermissionSettles(result)
    \/ \E coords \in GpsFixInputs : GpsHandleSuccess(coords)
    \/ \E code \in ErrorCodes : GpsHandleError(code)
    \/ \E event \in GpsOrientationInputs : GpsOrientation(event)
    \/ \E sample \in GpsMotionInputs : GpsMotion(sample)
    \/ GpsTeardown

Spec == Init /\ [][Next]_vars

\* the timer and the clock keep running
FairSpec == Spec /\ WF_vars(Advance) /\ WF_vars(Tick)

-----------------------------------------------------------------------------
(* Long sessions: one component is mounted and one of its input streams      *)
(* delivers up to MaxInsertions events, each at its own clock reading and    *)
(* each with contents of its own, so that every buffer fills and evicts.     *)

\* the i-th fix, orientation event and motion sample of a long session
LongFix(i) == Coords(Num(1 + i), Num(32), Num(5))
LongOrientation(i) == [alpha |-> Num((1 + 37 * i) % 360), webkitCompassHeading |-> Undefined]
LongMotion(i) == [acceleration |-> TRUE, rotationRate |-> TRUE,
                  gravityRange |-> FALSE, yawStep |-> 90]

\* Date.now() moves on between two events
LongClock ==
    /\ mounted # "none"
    /\ now < nFixes + nSensorEvents
    /\ now' = now + 1
    /\ UNCHANGED <<mounted, phase, sinceTick, out, nFixes, locVars, sensorVars, gpsVars>>

LongHandleSuccess ==
    /\ now = nFixes
    /\ nFixes < MaxInsertions
    /\ HandleSuccessStep(LongFix(nFixes))

LongOrientationEvent ==
    /\ now = nSensorEvents
    /\ nSensorEvents < MaxInsertions
    /\ imuHistoryRef = <<>>
    /\ CompassOrientationStep(LongOrientation(nSensorEvents))

LongMotionEvent ==
    /\ now = nSensorEvents
    /\ nSensorEvents < MaxInsertions
    /\ compassHistoryRef = <<>>
    /\ CompassMotionStep(LongMotion(nSensorEvents))

\* the device lies still from the start of the session: every sample so far
\* had an acceleration magnitude between 0.5 and 15
LongGravityEvent ==
    /\ now = nSensorEvents
    /\ nSensorEvents < MaxInsertions
    /\ compassHistoryRef = <<>>
    /\ \A i \in 1 .. Len(imuHistoryRef) : imuHistoryRef[i].heading = JsNull
    /\ CompassMotionStep([LongMotion(nSensorEvents) EXCEPT !.gravityRange = TRUE])

LongNext ==
    \/ \E wid \in WatchIds, iid \in IntervalIds : LocationMount(TRUE, wid, iid)
    \/ \E loc \in LocationProps : CompassMount(loc, "plain")
    \/ LongHandleSuccess
    \/ LongOrientationEvent
    \/ LongMotionEvent
    \/ LongGravityEvent
    \/ LongClock

LongSpec == Init /\ [][LongNext]_vars

-----------------------------------------------------------------------------
(* Degraded periods of LocationTracker: the watch falls silent, the timer    *)
(* predicts, and the watch delivers again. The clock runs to                 *)
(* MaxDegradedTime, the watch delivers up to MaxDegradedFixes fixes.         *)

\* what the watch delivers as its i-th fix: a new position, or no latitude
DegradedFixInputs(i) == { LongFix(i), Coords(NaN, Num(32), Num(5)) }

DegradedHandleSuccess(coords) ==
    /\ nFixes < MaxDegradedFixes
    /\ HandleSuccessStep(coords)

\* time passes
DegradedAdvance ==
    /\ mounted = "location"
    /\ now + TimeStep <= MaxDegradedTime
    /\ now' = now + TimeStep
    /\ sinceTick' = IF intervalActive THEN Min(sinceTick + TimeStep, TickMs) ELSE sinceTick
    /\ UNCHANGED <<mounted, phase, out, nFixes, locVars>>
    /\ UNCHANGED <<sensorVars, gpsVars>>

DegradedNext ==
    \/ \E wid \in WatchIds, iid \in IntervalIds : LocationMount(TRUE, wid, iid)
    \/ \E coords \in DegradedFixInputs(nFixes) : DegradedHandleSuccess(coords)
    \/ Tick
    \/ DegradedAdvance

DegradedSpec == Init /\ [][DegradedNext]_vars

-----------------------------------------------------------------------------
(* CompassTracker: heading fusion.  Weights are in ten-thousandths,          *)
(* confidences in hundredths, effective weights in millionths.               *)

ConfidenceScale == 100
DeviceWeight == 2500
DeviceConfidence == 80
SatelliteWeight == 3000
TrajectoryWeight == 2500
ImuWeight == 1500
ImuCalibratedConfidence == 90
ImuUncalibratedConfidence == 60
GpsWeight == 500
GpsConfidence == 70
FullConfidenceWeight == 5000
MinSatellites == 4
GoodElevation == 15
GoodSignal == 30
GoodSeparation == 30
SignificantMagnitude == 100
VisibleSoon == 10

\* what the triangulator and the trajectory predictor return: null, or a
\* north with its confidence
NoNorth == [available |-> FALSE, north |-> JsNull, confidence |-> 0]
North(north, confidence) ==
    [available |-> TRUE, north |-> north, confidence |-> confidence]

NoFusion == [available |-> FALSE, heading |-> JsNull, confidence |-> 0, sources |-> <<>>]

Source(heading, weight, source, confidence) ==
    [heading |-> heading, weight |-> weight, source |-> source, confidence |-> confidence]

\* source.weight * source.confidence, in millionths
EffectiveWeight(source) == source.weight * source.confidence

RECURSIVE SumOver(_, _)
SumOver(f, n) == IF n = 0 THEN 0 ELSE f[n] + SumOver(f, n - 1)

\* sources.push(...) for every source that passes its test, in the code's order
FusionSources(deviceCompass, satelliteResult, trajectoryResult, imuHeading, gpsHeading, calibrated) ==
    LET imuConfidence == IF calibrated THEN ImuCalibratedConfidence
                         ELSE ImuUncalibratedConfidence
    IN  (IF deviceCompass # JsNull
         THEN <<Source(deviceCompass, DeviceWeight, "device", DeviceConfidence)>>
         ELSE <<>>)
        \o (IF satelliteResult.available /\ satelliteResult.north # JsNull
            THEN <<Source(satelliteResult.north,
                          (SatelliteWeight * satelliteResult.confidence) \div ConfidenceScale,
                          "satellite", satelliteResult.confidence)>>
            ELSE <<>>)
        \o (IF trajectoryResult.available /\ trajectoryResult.north # JsNull
            THEN <<Source(trajectoryResult.north,
                          (TrajectoryWeight * trajectoryResult.confidence) \div ConfidenceScale,
                          "trajectory", trajectoryResult.confidence)>>
            ELSE <<>>)
        \o (IF imuHeading # JsNull
            THEN <<Source(imuHeading, (ImuWeight * imuConfidence) \div ConfidenceScale,
                          "imu", imuConfidence)>>
            ELSE <<>>)
        \o (IF gpsHeading # JsNull
            THEN <<Source(gpsHeading, GpsWeight, "gps", GpsConfidence)>>
            ELSE <<>>)

\* one term of a weighted circular mean: a heading in whole degrees and its weight
Term(heading, weight) == [heading |-> heading, weight |-> weight]

\* sum of weight * Math.sin(heading) and of weight * Math.cos(heading), each
\* divided by the total weight: thousandths
MeanVector(terms) ==
    LET n == Len(terms)
        totalWeight == SumOver([i \in 1 .. n |-> terms[i].weight], n)
    IN  [x |-> SumOver([i \in 1 .. n |-> CosMilli(terms[i].heading) * terms[i].weight], n)
                   \div totalWeight,
         y |-> SumOver([i \in 1 .. n |-> SinMilli(terms[i].heading) * terms[i].weight], n)
                   \div totalWeight]

\* The sign of a sine sum as the doubles give it.  Where the sum is exactly
\* zero because non-zero terms cancel, the rounding of the terms decides
\* (rounding: -1, 0 or 1).  Math.sin(k * Math.PI) is k times 1.2e-16, positive
\* for odd k and negative for even k (k > 0), (k * 180) degrees being rounded
\* to radians before the sine is taken.
SineSign(terms, sinSum, rounding) ==
    IF sinSum # 0 THEN (IF sinSum < 0 THEN -1 ELSE 1)
    ELSE IF \E i \in 1 .. Len(terms) :
                SinMilli(terms[i].heading) # 0 /\ terms[i].weight # 0
         THEN rounding
    ELSE LET residue == [i \in 1 .. Len(terms) |->
                            LET k == Abs(terms[i].heading) \div 180
                                e == k * terms[i].weight
                            IN  IF (k % 2 = 1) = (terms[i].heading > 0) THEN e
                                ELSE 0 - e]
             total == SumOver(residue, Len(terms))
         IN  IF total < 0 THEN -1 ELSE IF total > 0 THEN 1 ELSE 0

\* fusedHeading < 0 ? fusedHeading + 360 : fusedHeading
KeepNegative(fusedHeading, negative) == fusedHeading
WrapNegative(fusedHeading, negative) ==
    IF negative THEN fusedHeading + 360 ELSE fusedHeading

\* fuseCompassSources: the weighted circular mean of the sources, with
\* confidence Math.min(1.0, totalWeight / 0.5)
fuseCompassSources(deviceCompass, satelliteResult, trajectoryResult, imuHeading, gpsHeading, calibrated, rounding) ==
    LET sources == FusionSources(deviceCompass, satelliteResult, trajectoryResult,
                                 imuHeading, gpsHeading, calibrated)
        n == Len(sources)
        numeric == \A i \in 1 .. n : sources[i].heading.k = "num"
        terms == [i \in 1 .. n |->
                     Term(sources[i].heading.v, EffectiveWeight(sources[i]))]
        totalWeight == SumOver([i \in 1 .. n |-> EffectiveWeight(sources[i])], n)
        mean == MeanVector(terms)
        fusedHeading == Atan2Deg(mean.y, mean.x)
        negative == fusedHeading < 0
                    \/ (fusedHeading = 0 /\ SineSign(terms, mean.y, rounding) < 0)
        confidence == Min(ConfidenceScale, totalWeight \div FullConfidenceWeight)
    IN  IF n = 0 THEN NoFusion
        ELSE IF totalWeight > 0
        THEN [available |-> TRUE,
              heading |-> IF ~numeric THEN NaN
                          ELSE Num(WrapNegative(fusedHeading, negative)),
              confidence |-> confidence,
              sources |-> sources]
        ELSE NoFusion

-----------------------------------------------------------------------------
(* CompassTracker: satellite geometry.  Angles are whole degrees, lengths    *)
(* kilometres, times seconds; sines, cosines and eccentricities thousandths. *)

EarthRadiusKm == 6371
J2000UnixSeconds == 946728000
SiderealDaySeconds == 86164
GmstAtJ2000 == 280
VisibleElevation == 5
MaxRangeKm == 25000
KeplerIterations == 20
RangeUnitKm == 20

\* satelliteConstellations, in the order of Object.entries.  orbit is the
\* period 2 * PI / Math.sqrt(mu / altitude^3) in seconds, inclination is to the
\* nearest degree
satelliteConstellations ==
    << [name |-> "GPS", count |-> 24, inclination |-> 55, altitude |-> 20182,
        eccentricity |-> 20, planes |-> 6, raan |-> <<0, 60, 120, 180, 240, 300>>,
        orbit |-> 28534],
       [name |-> "GLONASS", count |-> 24, inclination |-> 65, altitude |-> 19130,
        eccentricity |-> 10, planes |-> 3, raan |-> <<0, 120, 240>>, orbit |-> 26332],
       [name |-> "Galileo", count |-> 24, inclination |-> 56, altitude |-> 23222,
        eccentricity |-> 1, planes |-> 3, raan |-> <<0, 120, 240>>, orbit |-> 35218],
       [name |-> "BeiDou", count |-> 24, inclination |-> 55, altitude |-> 21150,
        eccentricity |-> 10, planes |-> 3, raan |-> <<0, 120, 240>>, orbit |-> 30611],
       [name |-> "QZSS", count |-> 4, inclination |-> 43, altitude |-> 35786,
        eccentricity |-> 75, planes |-> 1, raan |-> <<0>>, orbit |-> 67372],
       [name |-> "IRNSS", count |-> 7, inclination |-> 29, altitude |-> 35786,
        eccentricity |-> 50, planes |-> 1, raan |-> <<0>>, orbit |-> 67372] >>

\* a / b rounded towards zero (b > 0), and a * b / 1000 for thousandths
TruncDiv(a, b) == IF a >= 0 THEN a \div b ELSE 0 - ((0 - a) \div b)
MulMilli(a, b) == TruncDiv(a * b, 1000)

\* Math.ceil(params.count / params.planes)
SatsPerPlane(params) == (params.count + params.planes - 1) \div params.planes

\* seconds from J2000 to the timestamp (milliseconds since 1970):
\* (julianDay - 2451545.0) * 86400
SecondsSinceJ2000(timestamp) == (timestamp \div 1000) - J2000UnixSeconds

\* calculateGMST in degrees: 280.46 + 360.98564736629 per day, modulo 360
calculateGMST(timestamp) ==
    (GmstAtJ2000
     + (360 * (SecondsSinceJ2000(timestamp) % SiderealDaySeconds)) \div SiderealDaySeconds)
    % 360

\* solveKeplerEquation: Newton-Raphson on E - e sin E = M, at most 20 steps;
\* at a resolution of one degree the tolerance 1e-6 is a step of zero.  The
\* loop's last E, the steps taken and whether the steps came to rest.
RECURSIVE KeplerIterate(_, _, _, _)
KeplerIterate(E, meanAnomaly, eccentricity, iterations) ==
    LET f == E - meanAnomaly - TruncDiv(eccentricity * SinMilli(E) * 573, 10000000)
        df == 1000000 - eccentricity * CosMilli(E)
        delta == TruncDiv(f * 1000000, df)
    IN  IF delta = 0
        THEN [E |-> E, iterations |-> iterations, converged |-> TRUE]
        ELSE IF iterations >= KeplerIterations
        THEN [E |-> E, iterations |-> iterations, converged |-> FALSE]
        ELSE KeplerIterate(E - delta, meanAnomaly, eccentricity, iterations + 1)

\* return E after the loop, converged or not
solveKeplerEquation(meanAnomaly, eccentricity) ==
    KeplerIterate(meanAnomaly, meanAnomaly, eccentricity, 0).E

\* transformToECI
transformToECI(x, y, inc, raan, argLat) ==
    LET cosRaan == CosMilli(raan)
        sinRaan == SinMilli(raan)
        cosInc == CosMilli(inc)
        sinInc == SinMilli(inc)
        cosArgLat == CosMilli(argLat)
        sinArgLat == SinMilli(argLat)
    IN  [x |-> MulMilli(x, MulMilli(cosRaan, cosArgLat)
                           - MulMilli(MulMilli(sinRaan, sinArgLat), cosInc))
               - MulMilli(y, MulMilli(cosRaan, sinArgLat)
                             + MulMilli(MulMilli(sinRaan, cosArgLat), cosInc)),
         y |-> MulMilli(x, MulMilli(sinRaan, cosArgLat)
                           + MulMilli(MulMilli(cosRaan, sinArgLat), cosInc))
               - MulMilli(y, MulMilli(sinRaan, sinArgLat)
                             - MulMilli(MulMilli(cosRaan, cosArgLat), cosInc)),
         z |-> MulMilli(x, MulMilli(sinArgLat, sinInc))
               + MulMilli(y, MulMilli(cosArgLat, sinInc))]

\* transformToECEF
transformToECEF(eci, gmst) ==
    [x |-> MulMilli(eci.x, CosMilli(gmst)) + MulMilli(eci.y, SinMilli(gmst)),
     y |-> MulMilli(eci.y, CosMilli(gmst)) - MulMilli(eci.x, SinMilli(gmst)),
     z |-> eci.z]

\* Math.asin(up / range) in whole degrees, -90 .. 90
RECURSIVE SineMarksBelow(_, _, _, _)
SineMarksBelow(lo, hi, up, range) ==
    LET k == (lo + hi + 1) \div 2
    IN  IF lo = hi THEN lo
        ELSE IF up * 1000 >= range * SinHalf(2 * k - 1)
        THEN SineMarksBelow(k, hi, up, range)
        ELSE SineMarksBelow(lo, k - 1, up, range)

AsinDeg(up, range) ==
    IF up >= 0 THEN SineMarksBelow(0, 90, up, range)
    ELSE 0 - SineMarksBelow(0, 90, 0 - up, range)

\* azimuth < 0 ? azimuth + 360 : azimuth
NonNegativeAngle(angle) == IF angle < 0 THEN angle + 360 ELSE angle

\* the sky of the observer from the north, east and up parts of the vector to
\* the satellite and its length
SkyOf(north, east, up, range) ==
    [azimuth |-> NonNegativeAngle(Atan2Deg(east, north)),
     elevation |-> AsinDeg(up, Max(range, 1)),
     range |-> range]

\* calculateEnhancedAzimuthElevation, the observer at whole degrees
calculateEnhancedAzimuthElevation(lat, lon, alt, sat) ==
    LET obsX == MulMilli(MulMilli(EarthRadiusKm + alt, CosMilli(lat)), CosMilli(lon))
        obsY == MulMilli(MulMilli(EarthRadiusKm + alt, CosMilli(lat)), SinMilli(lon))
        obsZ == MulMilli(EarthRadiusKm + alt, SinMilli(lat))
        dx == sat.x - obsX
        dy == sat.y - obsY
        dz == sat.z - obsZ
    IN  SkyOf(MulMilli(dz, CosMilli(lat))
                  - MulMilli(MulMilli(dx, SinMilli(lat)), CosMilli(lon))
                  - MulMilli(MulMilli(dy, SinMilli(lat)), SinMilli(lon)),
              MulMilli(dy, CosMilli(lon)) - MulMilli(dx, SinMilli(lon)),
              MulMilli(MulMilli(dx, CosMilli(lat)), CosMilli(lon))
                  + MulMilli(MulMilli(dy, CosMilli(lat)), SinMilli(lon))
                  + MulMilli(dz, SinMilli(lat)),
              RangeUnitKm
                  * Sqrt(TruncDiv(dx, RangeUnitKm) * TruncDiv(dx, RangeUnitKm)
                         + TruncDiv(dy, RangeUnitKm) * TruncDiv(dy, RangeUnitKm)
                         + TruncDiv(dz, RangeUnitKm) * TruncDiv(dz, RangeUnitKm)))

\* calculateSignalStrength, in hundredths
calculateSignalStrength(elevation, range) ==
    LET atmosphericLoss == Max(0, 100 - ((90 - elevation) * 30) \div 90)
        rangeLoss == Max(10, 100 - (range * 100) \div MaxRangeKm)
    IN  Max(0, Min(100, (atmosphericLoss * rangeLoss) \div 100))

\* 2 * Math.atan2(Math.sqrt(1 + e) * Math.sin(E / 2), Math.sqrt(1 - e) * Math.cos(E / 2))
TrueAnomaly(eccentricAnomaly, eccentricity) ==
    2 * Atan2Deg(MulMilli(Sqrt(1000 * (1000 + eccentricity)), SinHalf(eccentricAnomaly)),
                 MulMilli(Sqrt(1000 * (1000 - eccentricity)),
                          SinHalf(eccentricAnomaly + 180)))

\* the place in the orbital plane, turned into ECI coordinates
OrbitEci(params, plane, eccentricAnomaly, trueAnomaly) ==
    LET radius == params.altitude
                  - MulMilli(MulMilli(params.altitude, params.eccentricity),
                             CosMilli(eccentricAnomaly))
    IN  transformToECI(MulMilli(radius, CosMilli(trueAnomaly)),
                       MulMilli(radius, SinMilli(trueAnomaly)),
                       params.inclination, params.raan[plane + 1], trueAnomaly)

\* the satellite record: the fields its callers read
Satellite(id, sky) ==
    [id |-> id, azimuth |-> sky.azimuth, elevation |-> sky.elevation,
     signalStrength |-> calculateSignalStrength(sky.elevation, sky.range)]

SatelliteAt(lat, lon, alt, gmst, params, plane, satInPlane, eccentricAnomaly) ==
    Satellite(<<params.name, plane, satInPlane>>,
              calculateEnhancedAzimuthElevation(lat, lon, alt,
                  transformToECEF(OrbitEci(params, plane, eccentricAnomaly,
                                           TrueAnomaly(eccentricAnomaly,
                                                       params.eccentricity)),
                                  gmst)))

\* calculateEnhancedSatelliteOrbit: the satellite's place on its orbit at the
\* time, turned into the sky of the observer
calculateEnhancedSatelliteOrbit(lat, lon, alt, timestamp, gmst, params, plane, satInPlane) ==
    LET timeOffset == (satInPlane * 360) \div SatsPerPlane(params)
        meanAnomaly ==
            ((360 * (SecondsSinceJ2000(timestamp) % params.orbit)) \div params.orbit
             + timeOffset) % 360
    IN  SatelliteAt(lat, lon, alt, gmst, params, plane, satInPlane,
                    solveKeplerEquation(meanAnomaly, params.eccentricity))

\* the (plane, satInPlane) pairs of a constellation in the order of the loops
Slots(params) ==
    [i \in 1 .. params.planes * SatsPerPlane(params) |->
        <<(i - 1) \div SatsPerPlane(params), (i - 1) % SatsPerPlane(params)>>]

\* if (satellite && satellite.elevation > 5) satellites.push(satellite)
AddSatellite(satellites, satellite) ==
    IF satellite.elevation > VisibleElevation THEN Append(satellites, satellite)
    ELSE satellites

\* the two inner loops for one constellation: a slot is computed while
\* satellites.length < params.count
RECURSIVE AddConstellation(_, _, _, _, _, _, _, _)
AddConstellation(satellites, lat, lon, alt, timestamp, gmst, params, i) ==
    IF i > params.planes * SatsPerPlane(params) THEN satellites
    ELSE IF Len(satellites) >= params.count
    THEN AddConstellation(satellites, lat, lon, alt, timestamp, gmst, params, i + 1)
    ELSE AddConstellation(
             AddSatellite(satellites,
                          calculateEnhancedSatelliteOrbit(lat, lon, alt, timestamp, gmst, params,
                                                          Slots(params)[i][1],
                                                          Slots(params)[i][2])),
             lat, lon, alt, timestamp, gmst, params, i + 1)

RECURSIVE AddConstellations(_, _, _, _, _, _, _)
AddConstellations(satellites, lat, lon, alt, timestamp, gmst, c) ==
    IF c > Len(satelliteConstellations) THEN satellites
    ELSE AddConstellations(
             AddConstellation(satellites, lat, lon, alt, timestamp, gmst,
                              satelliteConstellations[c], 1),
             lat, lon, alt, timestamp, gmst, c + 1)

\* calculateSatellitePositions(lat, lon, altitude, timestamp): latitude and
\* longitude in whole degrees, altitude in km, timestamp in ms
calculateSatellitePositionsAtLocationProp(lat, lon, altitude, timestamp) ==
    IF location.set
    THEN AddConstellations(<<>>, location.latitude.v \div UnitsPerDegree,
                           location.longitude.v \div UnitsPerDegree, altitude, timestamp,
                           calculateGMST(timestamp), 1)
    ELSE AddConstellations(<<>>, lat, lon, altitude, timestamp, calculateGMST(timestamp), 1)
calculateSatellitePositions(lat, lon, altitude, timestamp) ==
    AddConstellations(<<>>, lat, lon, altitude, timestamp, calculateGMST(timestamp), 1)

-----------------------------------------------------------------------------
(* CompassTracker: north from the satellites *)

\* one satellite observation: azimuth and elevation in whole degrees, signal
\* strength in hundredths
Observation(id, azimuth, elevation, signalStrength) ==
    [id |-> id, azimuth |-> azimuth, elevation |-> elevation,
     signalStrength |-> signalStrength]

RECURSIVE MinOver(_, _)
MinOver(f, n) == IF n = 0 THEN 180 ELSE Min(f[n], MinOver(f, n - 1))

\* calculateGeometryWeight: Math.min(1.0, minSeparation / 30), in hundredths
calculateGeometryWeight(satellite, allSatellites) ==
    LET separation == [i \in 1 .. Len(allSatellites) |->
            LET other == allSatellites[i]
                azDiff == Abs(satellite.azimuth - other.azimuth)
                elDiff == Abs(satellite.elevation - other.elevation)
            IN  IF other.id # satellite.id
                THEN Sqrt(azDiff * azDiff + elDiff * elDiff) ELSE 180]
        minSeparation == MinOver(separation, Len(allSatellites))
    IN  Min(ConfidenceScale, (minSeparation * ConfidenceScale) \div GoodSeparation)

\* calculateAdvancedSatelliteTriangulationNorth: the weighted circular mean of
\* the azimuths of the good satellites (weights in ten-thousandths)
GoodSatellites(satellites) ==
    SelectSeq(satellites,
              LAMBDA sat : sat.elevation > GoodElevation /\ sat.signalStrength > GoodSignal)

\* elevationWeight * signalWeight * geometryWeight of every good satellite
TriangulationTerms(goodSatellites) ==
    [i \in 1 .. Len(goodSatellites) |->
        Term(goodSatellites[i].azimuth,
             (SinMilli(goodSatellites[i].elevation) * goodSatellites[i].signalStrength
              * calculateGeometryWeight(goodSatellites[i], goodSatellites)) \div 1000)]

calculateAdvancedSatelliteTriangulationNorth(satellites, rounding) ==
    LET goodSatellites == GoodSatellites(satellites)
        n == Len(goodSatellites)
        terms == TriangulationTerms(goodSatellites)
        totalWeight == SumOver([i \in 1 .. n |-> terms[i].weight], n)
        northVector == MeanVector(terms)
        magnitude == Sqrt(northVector.x * northVector.x + northVector.y * northVector.y)
        trueNorth == Atan2Deg(northVector.y, northVector.x)
        negative == trueNorth < 0
                    \/ (trueNorth = 0 /\ SineSign(terms, northVector.y, rounding) < 0)
    IN  IF Len(satellites) < MinSatellites THEN NoNorth
        ELSE IF n < MinSatellites THEN NoNorth
        ELSE IF totalWeight > 0 /\ magnitude > SignificantMagnitude
        THEN North(Num(WrapNegative(trueNorth, negative)),
                   Min(ConfidenceScale, (magnitude * n) \div ConfidenceScale))
        ELSE NoNorth

\* the `previous' snapshot handed to the trajectory predictor: null, or the
\* satellites of a stored history entry
NoSnapshot == [present |-> FALSE, satellites |-> <<>>]
Snapshot(satellites) == [present |-> TRUE, satellites |-> satellites]

\* previousSatellites.find(prev => prev.id === sat.id): the index of the first
\* entry with the id, 0 when there is none
FindById(previousSatellites, id) ==
    LET found == { j \in 1 .. Len(previousSatellites) : previousSatellites[j].id = id }
    IN  IF found = {} THEN 0 ELSE CHOOSE j \in found : \A k \in found : j <= k

\* the trajectoryVectors of calculateEnhancedTrajectoryPredictedNorth, one
\* second ahead: predicted azimuth and weight (ten-thousandths) of every
\* satellite found in the previous snapshot, above 15 degrees now and
\* predicted above 10 degrees
TrajectoryVectors(satellites, previousSatellites) ==
    LET PredictedEl(sat) ==
            LET prevSat == previousSatellites[FindById(previousSatellites, sat.id)]
            IN  sat.elevation + (sat.elevation - prevSat.elevation)
        kept == SelectSeq(satellites,
                    LAMBDA sat : /\ FindById(previousSatellites, sat.id) # 0
                                 /\ sat.elevation > GoodElevation
                                 /\ PredictedEl(sat) > VisibleSoon)
    IN  [i \in 1 .. Len(kept) |->
            LET sat == kept[i]
                prevSat == previousSatellites[FindById(previousSatellites, sat.id)]
            IN  Term(sat.azimuth + (sat.azimuth - prevSat.azimuth),
                     (SinMilli(PredictedEl(sat)) * sat.signalStrength) \div 10)]

\* a threshold of three vectors instead of four
TooFewVectors3(n) == n < MinSatellites - 1
TooFewVectors(n) == n < MinSatellites

calculateEnhancedTrajectoryPredictedNorth(satellites, previousSatellites, rounding) ==
    LET trajectoryVectors == TrajectoryVectors(satellites, previousSatellites.satellites)
        n == Len(trajectoryVectors)
        totalWeight == SumOver([i \in 1 .. n |-> trajectoryVectors[i].weight], n)
        predictedNorth == MeanVector(trajectoryVectors)
        magnitude == Sqrt(predictedNorth.x * predictedNorth.x
                          + predictedNorth.y * predictedNorth.y)
        north == Atan2Deg(predictedNorth.y, predictedNorth.x)
        negative == north < 0
                    \/ (north = 0 /\ SineSign(trajectoryVectors, predictedNorth.y,
                                              rounding) < 0)
    IN  IF ~previousSatellites.present \/ Len(previousSatellites.satellites) < MinSatellites
        THEN NoNorth
        ELSE IF TooFewVectors(n) THEN NoNorth
        ELSE IF totalWeight > 0 /\ magnitude > SignificantMagnitude
        THEN North(Num(WrapNegative(north, negative)),
                   Min(ConfidenceScale, (magnitude * n) \div ConfidenceScale))
        ELSE NoNorth

-----------------------------------------------------------------------------
(* The pure functions on their own: an action applies one function to one    *)
(* input and keeps the input and the result in out.                          *)

Position(lat, lon, t) ==
    [set |-> TRUE, latitude |-> Num(lat), longitude |-> Num(lon), timestamp |-> t,
     accuracy |-> Num(5)]

\* displacements around the 0.5 m threshold (4.5 units of latitude), at the
\* equator, at 60 degrees north and from a zero coordinate
PreviousPositions ==
    { Position(64, 32, 100), Position(60 * UnitsPerDegree, 32, 100),
      Position(0, 32, 100), NoPosition }
Displacements == {-6, -4, 0, 3, 4, 5, 6}
CurrentTimes == {50, 100, 200, 1100}

ApplyMovementMetrics(previousPos, deltaLat, deltaLon, t) ==
    /\ mounted = "none"
    /\ mounted' = "calculateMovementMetrics"
    /\ LET base == IF previousPos.set THEN previousPos ELSE Position(64, 32, 100)
           currentPos == Position(base.latitude.v + deltaLat,
                                  base.longitude.v + deltaLon, t)
       IN  out' = [currentPos |-> currentPos, previousPos |-> previousPos,
                   result |-> calculateMovementMetrics(currentPos, previousPos)]
    /\ UNCHANGED <<phase, now, sinceTick, nFixes, locVars, sensorVars, gpsVars>>

\* inputs of fuseCompassSources: one source alone with every whole heading,
\* and all mixtures of a few headings (the movement heading also missing)
AdmissibleHeadings == { Num(h) : h \in 0 .. 359 }
NorthConfidences == {5, 50, 89, 100}
MixedHeadings == {Num(10), Num(180), Num(350)}
Roundings == {-1, 0, 1}

FusionInput(deviceCompass, satelliteResult, trajectoryResult, imuHeading, gpsHeading, calibrated) ==
    [deviceCompass |-> deviceCompass, satelliteResult |-> satelliteResult,
     trajectoryResult |-> trajectoryResult, imuHeading |-> imuHeading,
     gpsHeading |-> gpsHeading, calibrated |-> calibrated]

SingleSourceInputs ==
    { FusionInput(h, NoNorth, NoNorth, JsNull, JsNull, FALSE) : h \in AdmissibleHeadings }
    \cup { FusionInput(JsNull, North(h, c), NoNorth, JsNull, JsNull, FALSE) :
               h \in AdmissibleHeadings, c \in NorthConfidences }
    \cup { FusionInput(JsNull, NoNorth, North(h, c), JsNull, JsNull, FALSE) :
               h \in AdmissibleHeadings, c \in NorthConfidences }
    \cup { FusionInput(JsNull, NoNorth, NoNorth, h, JsNull, calibrated) :
               h \in AdmissibleHeadings, calibrated \in BOOLEAN }
    \cup { FusionInput(JsNull, NoNorth, NoNorth, JsNull, h, FALSE) :
               h \in AdmissibleHeadings }

MixedNorths == {NoNorth} \cup { North(h, 50) : h \in MixedHeadings }

MixedInputs ==
    { FusionInput(d, s, t, i, g, calibrated) :
          d \in MixedHeadings \cup {JsNull}, s \in MixedNorths, t \in MixedNorths,
          i \in MixedHeadings \cup {JsNull}, g \in MixedHeadings \cup {JsNull, Undefined},
          calibrated \in BOOLEAN }

ApplyFuseCompassSources(input, rounding) ==
    /\ mounted = "none"
    /\ mounted' = "fuseCompassSources"
    /\ out' = [input |-> input, rounding |-> rounding,
               result |-> fuseCompassSources(input.deviceCompass, input.satelliteResult,
                                             input.trajectoryResult, input.imuHeading,
                                             input.gpsHeading, input.calibrated, rounding)]
    /\ UNCHANGED <<phase, now, sinceTick, nFixes, locVars, sensorVars, gpsVars>>

\* satellite lists given to the triangulator: three or four observations
\* out of a few directions, one of them low and one of them weak
SatelliteLists ==
    LET ObservationPool ==
            { <<azimuth, elevation, 45>> : azimuth \in {10, 350}, elevation \in {30, 60} }
            \cup { <<10, 10, 45>>, <<350, 60, 25>> }
    IN  UNION { [1 .. n -> ObservationPool] : n \in {3, 4} }

ApplyTriangulation(list, rounding) ==
    /\ mounted = "none"
    /\ mounted' = "calculateAdvancedSatelliteTriangulationNorth"
    /\ LET satellites == [i \in 1 .. Len(list) |->
                             Observation(i, list[i][1], list[i][2], list[i][3])]
       IN  out' = [satellites |-> satellites, rounding |-> rounding,
                   result |-> calculateAdvancedSatelliteTriangulationNorth(satellites,
                                                                           rounding)]
    /\ UNCHANGED <<phase, now, sinceTick, nFixes, locVars, sensorVars, gpsVars>>

\* what one satellite does between two snapshots: azimuth and elevation now,
\* azimuth and elevation before, and whether the previous snapshot has it
TrajectoryPool ==
    { <<10, 40, 10, 40, TRUE>>, <<350, 40, 350, 40, FALSE>>, <<350, 20, 350, 35, TRUE>>,
      <<10, 12, 10, 12, TRUE>>, <<350, 30, 348, 25, TRUE>>, <<10, 16, 12, 21, TRUE>> }

\* the previous snapshot: none, one cut to three satellites, or all four, a
\* satellite that has left the sky standing for one that is new now
ApplyTrajectory(list, previous, rounding) ==
    /\ mounted = "none"
    /\ mounted' = "calculateEnhancedTrajectoryPredictedNorth"
    /\ LET satellites == [i \in 1 .. Len(list) |->
                             Observation(i, list[i][1], list[i][2], 45)]
           before == [i \in 1 .. Len(list) |->
                         Observation(IF list[i][5] THEN i ELSE i + Len(list),
                                     list[i][3], list[i][4], 45)]
           previousSatellites ==
               CASE previous = "none" -> NoSnapshot
                 [] previous = "short" -> Snapshot(SubSeq(before, 1, MinSatellites - 1))
                 [] previous = "full" -> Snapshot(before)
       IN  out' = [satellites |-> satellites, previousSatellites |-> previousSatellites,
                   rounding |-> rounding,
                   result |-> calculateEnhancedTrajectoryPredictedNorth(
                                  satellites, previousSatellites, rounding)]
    /\ UNCHANGED <<phase, now, sinceTick, nFixes, locVars, sensorVars, gpsVars>>

\* solveKeplerEquation(meanAnomaly, eccentricity): the loop's last state and
\* the value returned
ApplySolveKepler(meanAnomaly, eccentricity) ==
    /\ mounted = "none"
    /\ mounted' = "solveKeplerEquation"
    /\ out' = [meanAnomaly |-> meanAnomaly, eccentricity |-> eccentricity,
               loop |-> KeplerIterate(meanAnomaly, meanAnomaly, eccentricity, 0),
               result |-> solveKeplerEquation(meanAnomaly, eccentricity)]
    /\ UNCHANGED <<phase, now, sinceTick, nFixes, locVars, sensorVars, gpsVars>>

\* smoothPosition(newPos, previousPos, accuracy)
ApplySmoothPosition(newPos, previousPos, accuracy) ==
    /\ mounted = "none"
    /\ mounted' = "smoothPosition"
    /\ out' = [newPos |-> newPos, previousPos |-> previousPos, accuracy |-> accuracy,
               result |-> smoothPosition(newPos, previousPos, accuracy)]
    /\ UNCHANGED <<phase, now, sinceTick, nFixes, locVars, sensorVars, gpsVars>>

\* arguments of calculateSatellitePositions: observers at (45, 10) and (0, 0)
\* degrees, at the start of the clock and 10 minutes later
SatelliteArguments == { <<45, 10, 0, 0>>, <<45, 10, 0, 600000>>, <<0, 0, 0, 0>> }

\* what the tracker holds besides the arguments when a call is made
TrackerState ==
    [location |-> location, imuFilterRef |-> imuFilterRef,
     compassHistoryRef |-> compassHistoryRef, imuHistoryRef |-> imuHistoryRef,
     satelliteHistoryRef |-> satelliteHistoryRef]

ApplySatellitePositions(arguments) ==
    /\ mounted \in {"none", "calculateSatellitePositions"}
    /\ mounted' = "calculateSatellitePositions"
    /\ LET calls == IF mounted = "none" THEN <<>> ELSE out.calls
       IN  /\ Len(calls) < MaxCalls
           /\ out' = [calls |-> Append(calls,
                          [arguments |-> arguments,
                           tracker |-> TrackerState,
                           result |-> calculateSatellitePositions(
                                          arguments[1], arguments[2], arguments[3],
                                          arguments[4])])]
    /\ UNCHANGED <<phase, now, sinceTick, nFixes, locVars, sensorVars, gpsVars>>

\* between two calls the tracker's state moves on: a new location prop, an
\* orientation event (compass history, IMU filter, satellite history) or a
\* motion sample (IMU filter and history)
TrackerStateChanges ==
    /\ mounted = "calculateSatellitePositions"
    /\ Len(out.calls) < MaxCalls
    /\ \/ /\ \E loc \in LocationProps : location' = loc /\ loc # location
          /\ UNCHANGED <<compassHistoryRef, imuHistoryRef, satelliteHistoryRef,
                         imuFilterRef>>
       \/ /\ compassHistoryRef = <<>>
          /\ compassHistoryRef' =
                 PushCapped(compassHistoryRef, Num(90), CompassHistoryCap)
          /\ imuFilterRef' = [imuFilterRef EXCEPT !.orientationSet = TRUE]
          /\ satelliteHistoryRef' =
                 PushCapped(satelliteHistoryRef, [timestamp |-> now], SatelliteHistoryCap)
          /\ UNCHANGED <<location, imuHistoryRef>>
       \/ /\ imuHistoryRef = <<>>
          /\ \E sample \in {m \in MotionInputs : m.gravityRange} :
                LET r == ProcessIMUData(sample)
                IN  /\ imuHistoryRef' =
                           PushCapped(imuHistoryRef,
                                      [heading |-> r.heading, timestamp |-> now],
                                      ImuHistoryCap)
                    /\ imuFilterRef' = r.filter
          /\ UNCHANGED <<location, compassHistoryRef, satelliteHistoryRef>>
    /\ UNCHANGED <<mounted, out, phase, now, sinceTick, nFixes, locVars, gpsVars,
                   sensorsActiveRef, deviceSensors, compassData, permission,
                   orientationListener, motionListener, initialTimer, nSensorEvents>>

FunctionNext ==
    \/ /\ mounted = "none"
       /\ \E previousPos \in PreviousPositions, deltaLat \in Displacements,
             deltaLon \in Displacements, t \in CurrentTimes :
              ApplyMovementMetrics(previousPos, deltaLat, deltaLon, t)
    \/ /\ mounted = "none"
       /\ \E input \in SingleSourceInputs \cup MixedInputs, rounding \in Roundings :
              ApplyFuseCompassSources(input, rounding)
    \/ /\ mounted = "none"
       /\ \E list \in SatelliteLists, rounding \in Roundings :
              ApplyTriangulation(list, rounding)
    \/ /\ mounted = "none"
       /\ \E list \in [1 .. MinSatellites -> TrajectoryPool],
             previous \in {"none", "short", "full"}, rounding \in Roundings :
              ApplyTrajectory(list, previous, rounding)
    \/ /\ mounted = "none"
       \* every mean anomaly at the eccentricities 0.001, 0.075 and 0.5, and
       \* four mean anomalies at 1.5, where the steps do not come to rest
       /\ \E arguments \in ((0 .. 359) \X {1, 75, 500}) \cup ({19, 20, 28, 38} \X {1500}) :
              ApplySolveKepler(arguments[1], arguments[2])
    \/ /\ mounted = "none"
       \* a previous smoothed position north or south of the equator (or none),
       \* a raw fix up to a thousandth of a degree away from it, and an accuracy
       \* from 0 to 1000 m (or none)
       /\ \E lat \in {-3000, 64, 1000064}, step \in {-1000, -2, -1, 0, 1, 2, 7, 1000},
             set \in BOOLEAN,
             accuracy \in { Num(a) : a \in {0, 1, 5, 19, 20, 21, 40, 1000} } \cup {NaN} :
              ApplySmoothPosition(
                  [latitude |-> Num(lat + step), longitude |-> Num(32 - step)],
                  [NoPosition EXCEPT !.set = set, !.latitude = Num(lat),
                                     !.longitude = Num(32)],
                  accuracy)
    \/ \E arguments \in SatelliteArguments : ApplySatellitePositions(arguments)
    \/ TrackerStateChanges

FunctionSpec == Init /\ [][FunctionNext]_vars

-----------------------------------------------------------------------------
(* CompassTracker with its satellite snapshots: orientation events up to     *)
(* MaxSnapshots, at clock readings up to MaxSnapshotTime, each processed by  *)
(* processCompassData with the satellites computed, stored and compared.     *)

\* the satellites of the entry before the last one
OlderSnapshot(history) ==
    IF Len(history) > 1 THEN Snapshot(history[Len(history) - 1].satellites)
    ELSE NoSnapshot

\* length > 0 ? history[length - 1].satellites : null
LastSnapshot(history) ==
    IF Len(history) > 0 THEN Snapshot(history[Len(history)].satellites)
    ELSE NoSnapshot

\* processCompassData from the satellites on: previousSatellites is read,
\* then the snapshot is pushed, then the norths are computed
ProcessCompassSnapshot(deviceCompass, satellites, op) ==
    LET previousSatellites == LastSnapshot(satelliteHistoryRef)
    IN  /\ satelliteHistoryRef' =
               PushCapped(satelliteHistoryRef,
                          [satellites |-> satellites, timestamp |-> now],
                          SatelliteHistoryCap)
        /\ \E rounding \in Roundings :
               out' = [NoOutput(op) EXCEPT
                           !.kind = "update",
                           !.at = now,
                           !.deviceHeading = deviceCompass,
                           !.imuHeading = IF Len(imuHistoryRef) > 0
                                          THEN imuHistoryRef[Len(imuHistoryRef)].heading
                                          ELSE JsNull]
                      @@ [satellites |-> satellites,
                          previousSatellites |-> previousSatellites,
                          satelliteTriangulationResult |->
                              calculateAdvancedSatelliteTriangulationNorth(
                                  satellites, rounding),
                          trajectoryPredictedResult |->
                              calculateEnhancedTrajectoryPredictedNorth(
                                  satellites, previousSatellites, rounding)]

\* handleOrientation
SnapshotOrientation(event) ==
    /\ mounted = "compass"
    /\ orientationListener
    /\ nSensorEvents < MaxSnapshots
    /\ nSensorEvents' = nSensorEvents + 1
    /\ LET pushed == PushCapped(compassHistoryRef, DeviceCompass(event),
                                CompassHistoryCap)
       IN  /\ sensorsActiveRef' = TRUE
           /\ compassHistoryRef' = pushed
           /\ imuFilterRef' = [imuFilterRef EXCEPT !.orientationSet = TRUE]
           /\ IF ~location.set
              THEN out' = NoOutput("orientation") /\ UNCHANGED satelliteHistoryRef
              ELSE ProcessCompassSnapshot(
                       MeanOf(pushed),
                       calculateSatellitePositions(
                           location.latitude.v \div UnitsPerDegree,
                           location.longitude.v \div UnitsPerDegree, 0, now),
                       "orientation")
    /\ UNCHANGED <<mounted, phase, now, sinceTick, nFixes, locVars, gpsVars,
                   imuHistoryRef, location, deviceSensors, compassData,
                   permission, orientationListener, motionListener, initialTimer>>

\* ten minutes pass
SnapshotAdvance ==
    /\ mounted = "compass"
    /\ now < MaxSnapshotTime
    /\ now' = MaxSnapshotTime
    /\ UNCHANGED <<mounted, phase, sinceTick, out, nFixes, locVars, sensorVars, gpsVars>>

SnapshotNext ==
    \/ \E loc \in LocationProps : CompassMount(loc, "plain")
    \/ \E alpha \in {90, 270} :
           SnapshotOrientation([alpha |-> Num(alpha), webkitCompassHeading |-> Undefined])
    \/ SnapshotAdvance

SnapshotSpec == Init /\ [][SnapshotNext]_vars

-----------------------------------------------------------------------------
(* Properties *)

LocationRunning == mounted = "location" /\ phase = "running"
LocationStopped == mounted = "location" /\ phase = "stopped"

AbsentOrNaN(coords) == IsNaN(coords.latitude) \/ IsNaN(coords.longitude)
FiniteCoords(coords) == IsFinite(coords.latitude) /\ IsFinite(coords.longitude)

\* C1: after LocationTracker's cleanup has run, no position (real or
\* predicted) is given to onUpdate, whatever ids the platform returned.
C1_NoUpdateAfterTeardown ==
    LocationStopped => out.kind # "update"

\* C2: after CompassTracker's cleanup has run, neither onUpdate nor onError is
\* called again, whatever was pending at the cleanup (sensor events, the 2 s
\* timer, the permission request).
C2_NoCallbackAfterTeardown ==
    (mounted = "compass" /\ phase = "stopped") => out.kind = "none"

\* C3: once the cleanup of a CompassTracker or UltraFastGpsTracker session has
\* run, neither its deviceorientation nor its devicemotion listener is
\* registered, even when the permission request was pending at the cleanup.
C3_TeardownUnsubscribes ==
    (mounted \in {"compass", "gps"} /\ phase = "stopped")
        => (~orientationListener /\ ~motionListener)

\* C4: a predicted position comes only from a tick at least 100 ms after the
\* last accepted fix, and a tick less than 100 ms after an accepted fix
\* gives nothing.
C4_PredictedOnlyWhenStale ==
    /\ (out.kind = "update" /\ out.predicted)
           => /\ out.op = "tick"
              /\ lastAcceptedAt >= 0
              /\ out.at - lastAcceptedAt >= 100
    /\ (out.op = "tick" /\ lastAcceptedAt >= 0 /\ out.at - lastAcceptedAt < 100)
           => out.kind = "none"

C4_Witness ==
    /\ out.op = "tick" /\ out.kind = "update" /\ out.predicted
    /\ out.at - lastAcceptedAt = 100

\* C5: in a running LocationTracker session whose timer keeps ticking, the
\* consumer always eventually gets a position update or an error.
C5_NoSilentStaleness ==
    [](LocationRunning => <>(~LocationRunning \/ out.kind # "none"))

\* C6: handleError with TIMEOUT calls no error callback, sets no error state
\* and leaves the last position, the history, the update count, the watch
\* and the timer as they were (in LocationTracker and in
\* UltraFastGpsTracker).
C6_TimeoutChangesNothing ==
    [][/\ HandleError(TIMEOUT) =>
              /\ out'.kind = "none"
              /\ UNCHANGED <<lastPositionRef, positionHistoryRef, updateCountRef,
                             lastGpsUpdateRef, watchIdRef, watchActive,
                             intervalIdRef, intervalActive, phase>>
       /\ GpsHandleError(TIMEOUT) =>
              /\ out'.kind = "none"
              /\ UNCHANGED <<error, isLoading, location, kalmanFilterRef,
                             positionHistoryRef, watchIdRef, watchActive,
                             phase>>]_vars

C6_Witness ==
    /\ out.op = "error" /\ out.code = TIMEOUT /\ out.kind = "none"
    /\ lastPositionRef.set /\ watchActive /\ intervalActive

\* C7: once onError was given PERMISSION_DENIED or POSITION_UNAVAILABLE, the
\* session gives no further position update.
C7_FatalErrorEndsUpdates ==
    (mounted = "location" /\ errorSurfaced) => out.kind # "update"

\* C8: a fix whose latitude or longitude is absent or NaN gives no onUpdate
\* and no onError and leaves lastPositionRef, positionHistoryRef,
\* updateCountRef and lastGpsUpdateRef as they were.
C8_InvalidFixChangesNothing ==
    [][\A coords \in FixInputs :
          (HandleSuccess(coords) /\ AbsentOrNaN(coords)) =>
              /\ out'.kind = "none"
              /\ UNCHANGED <<lastPositionRef, positionHistoryRef,
                             updateCountRef, lastGpsUpdateRef>>]_vars

C8_Witness ==
    /\ out.op = "fix" /\ out.kind = "none"
    /\ lastPositionRef.set /\ updateCountRef = 1 /\ nFixes = 2

\* C9: every fix whose latitude and longitude are finite numbers, 0 included,
\* is accepted: the update count grows by 1, the history by one entry, and
\* one real update is given to onUpdate.
C9_FiniteFixAccepted ==
    [][\A coords \in FixInputs :
          (HandleSuccess(coords) /\ FiniteCoords(coords)) =>
              /\ updateCountRef' = updateCountRef + 1
              /\ Len(positionHistoryRef') = Len(positionHistoryRef) + 1
              /\ out'.kind = "update" /\ ~out'.predicted /\ out'.isRealGPS]_vars

\* C10: every latitude and longitude given to onUpdate for a real fix, kept in
\* lastPositionRef or kept in the position history is a finite number.
C10_StoredCoordinatesFinite ==
    /\ (out.op = "fix" /\ out.kind = "update")
           => (IsFinite(out.latitude) /\ IsFinite(out.longitude))
    /\ lastPositionRef.set
           => (IsFinite(lastPositionRef.latitude) /\ IsFinite(lastPositionRef.longitude))
    /\ mounted = "location"
           => \A i \in 1 .. Len(positionHistoryRef) :
                  /\ IsFinite(positionHistoryRef[i].lat)
                  /\ IsFinite(positionHistoryRef[i].lon)

\* a heading: unavailable, or h with 0 <= h < 360
HeadingInRange(h) == h = JsNull \/ (h.k = "num" /\ 0 <= h.v /\ h.v < 360)

\* C11: every heading CompassTracker gives to onUpdate or keeps (the smoothed
\* device heading, the IMU heading, the compass history) is unavailable or
\* in [0, 360).
C11_HeadingsInRange ==
    mounted = "compass" =>
        /\ HeadingInRange(out.deviceHeading)
        /\ HeadingInRange(out.imuHeading)
        /\ \A i \in 1 .. Len(compassHistoryRef) : HeadingInRange(compassHistoryRef[i])

\* after an insertion a buffer holds at most cap entries: the entries it held
\* before, in their order and without the oldest ones, and then the new one
Fifo(before, after, cap) ==
    /\ after # <<>>
    /\ Len(after) <= cap
    /\ after = LastN(Append(before, after[Len(after)]), cap)

\* C12: every handler that inserts leaves its history buffer with at most
\* its capacity of entries (position 20, satellite 30, compass 10, IMU 50),
\* and these are the most recent insertions in arrival order.
C12_HistoriesBoundedFifo ==
    [][/\ LongHandleSuccess =>
              /\ Fifo(positionHistoryRef, positionHistoryRef', HistoryCap)
              /\ positionHistoryRef'[Len(positionHistoryRef')].timestamp = now
       /\ LongOrientationEvent =>
              /\ Fifo(compassHistoryRef, compassHistoryRef', CompassHistoryCap)
              /\ compassHistoryRef'[Len(compassHistoryRef')]
                     = DeviceCompass(LongOrientation(nSensorEvents))
              /\ location.set =>
                     /\ Fifo(satelliteHistoryRef, satelliteHistoryRef', SatelliteHistoryCap)
                     /\ satelliteHistoryRef'[Len(satelliteHistoryRef')].timestamp = now
       /\ LongMotionEvent =>
              /\ Fifo(imuHistoryRef, imuHistoryRef', ImuHistoryCap)
              /\ imuHistoryRef'[Len(imuHistoryRef')].timestamp = now
       /\ Len(positionHistoryRef') <= HistoryCap
       /\ Len(satelliteHistoryRef') <= SatelliteHistoryCap
       /\ Len(compassHistoryRef') <= CompassHistoryCap
       /\ Len(imuHistoryRef') <= ImuHistoryCap]_vars

C12_Witness ==
    /\ mounted = "compass"
    /\ Len(imuHistoryRef) = ImuHistoryCap
    /\ nSensorEvents > ImuHistoryCap
    /\ imuHistoryRef[1].timestamp = nSensorEvents - ImuHistoryCap

\* C13: calculateMovementMetrics gives no heading when the elapsed time is
\* <= 0 or the distance is not above 0.5 m; for two identical positions it
\* gives no heading and speed 0, whatever the elapsed time.
C13_NoHeadingWithoutMovement ==
    mounted = "calculateMovementMetrics" =>
        LET cur == out.currentPos
            prev == out.previousPos
        IN  /\ (~prev.set \/ cur.timestamp - prev.timestamp <= 0)
                   => out.result.gpsHeading = JsNull
            /\ out.result.distance <= MoveThresholdMm
                   => out.result.gpsHeading = JsNull
            /\ (prev.set /\ cur.latitude = prev.latitude
                         /\ cur.longitude = prev.longitude)
                   => (out.result.gpsHeading = JsNull /\ out.result.calculatedSpeed = 0)
            /\ HeadingInRange(out.result.gpsHeading)

C13_Witness ==
    /\ mounted = "calculateMovementMetrics"
    /\ out.previousPos.set
    /\ out.currentPos.latitude = out.previousPos.latitude
    /\ out.currentPos.longitude = out.previousPos.longitude
    /\ out.currentPos.timestamp > out.previousPos.timestamp
    /\ out.result.gpsHeading = JsNull

\* C14: when the last two history points have equal latitude and longitude
\* (and a positive time difference), a predicted position equals the last
\* known position; and every prediction reports an accuracy value >= the
\* accuracy of the last real fix.
C14_ZeroVelocityPrediction ==
    (mounted = "location" /\ out.op = "tick" /\ out.kind = "update") =>
        LET latest == positionHistoryRef[Len(positionHistoryRef)]
            previous == positionHistoryRef[Len(positionHistoryRef) - 1]
        IN  /\ (latest.lat = previous.lat /\ latest.lon = previous.lon)
                   => /\ out.latitude = lastPositionRef.latitude
                      /\ out.longitude = lastPositionRef.longitude
            /\ IsFinite(lastPositionRef.accuracy)
                   => /\ IsFinite(out.accuracyMilli)
                      /\ out.accuracyMilli.v >= 1000 * lastPositionRef.accuracy.v

C14_Witness ==
    /\ mounted = "location" /\ out.op = "tick" /\ out.kind = "update"
    /\ Len(positionHistoryRef) = 2
    /\ positionHistoryRef[1].lat = positionHistoryRef[2].lat
    /\ positionHistoryRef[1].lon = positionHistoryRef[2].lon
    /\ out.latitude = lastPositionRef.latitude
    /\ out.accuracyMilli.v > 1000 * lastPositionRef.accuracy.v

\* the fusion inputs in which exactly one source carries a heading
OneSourceAvailable(input) ==
    /\ Cardinality({ i \in {1, 2, 3} :
                      <<input.deviceCompass, input.imuHeading, input.gpsHeading>>[i]
                          # JsNull })
       + Cardinality({ i \in {1, 2} :
                      <<input.satelliteResult, input.trajectoryResult>>[i].available }) = 1
    /\ \A h \in {input.deviceCompass, input.imuHeading, input.gpsHeading} :
           h = JsNull \/ h \in AdmissibleHeadings

SingleSource(result) == result.sources[1]

WeightAt(terms, heading) ==
    SumOver([i \in 1 .. Len(terms) |->
                IF terms[i].heading = heading THEN terms[i].weight ELSE 0], Len(terms))

\* the terms are headings of 10 and 350 degrees with equal weights
TenAnd350Equally(terms) ==
    /\ \A i \in 1 .. Len(terms) : terms[i].heading \in {10, 350}
    /\ WeightAt(terms, 10) = WeightAt(terms, 350)
    /\ WeightAt(terms, 10) > 0

\* C16: heading averaging is wraparound-correct: the weighted circular mean of
\* headings of 10 and 350 degrees with equal weights is 0 degrees (not 180),
\* in the triangulator as in the fusion.
C16_MeanOf10And350IsZero ==
    /\ (mounted = "calculateAdvancedSatelliteTriangulationNorth"
        /\ Len(GoodSatellites(out.satellites)) >= MinSatellites
        /\ TenAnd350Equally(TriangulationTerms(GoodSatellites(out.satellites))))
           => out.result.available /\ out.result.north = Num(0)
    /\ (mounted = "fuseCompassSources" /\ out.result.available
        /\ TenAnd350Equally([i \in 1 .. Len(out.result.sources) |->
                Term(out.result.sources[i].heading.v,
                     EffectiveWeight(out.result.sources[i]))]))
           => out.result.heading = Num(0)

LatestDeltaMs ==
    positionHistoryRef[Len(positionHistoryRef)].timestamp
        - positionHistoryRef[Len(positionHistoryRef) - 1].timestamp

\* C19: a tick gives nothing when the position history has fewer than two
\* entries or when its two most recent entries are 0 ms or less apart, and
\* no tick gives a position whose latitude or longitude is NaN.
C19_PredictionFailsClosed ==
    /\ [][Tick =>
              ((Len(positionHistoryRef) < 2
                \/ (Len(positionHistoryRef) >= 2 /\ LatestDeltaMs <= 0))
                   => out'.kind = "none")]_vars
    /\ []((out.op = "tick" /\ out.kind = "update")
              => (~IsNaN(out.latitude) /\ ~IsNaN(out.longitude)))

\* two fixes processed in the same millisecond, a tick 100 ms later
C19_Witness ==
    /\ out.op = "tick" /\ out.kind = "none"
    /\ Len(positionHistoryRef) = 2 /\ LatestDeltaMs = 0
    /\ out.at - lastGpsUpdateRef >= PredictMinMs

\* no argument of the call carries a heading: null everywhere, or a movement
\* heading that is missing
NoSourceCarriesValue(input) ==
    /\ input.deviceCompass = JsNull
    /\ input.imuHeading = JsNull
    /\ input.gpsHeading \in {JsNull, Undefined}
    /\ ~input.satelliteResult.available
    /\ ~input.trajectoryResult.available

\* C20: fuseCompassSources returns unavailable (null) whenever no heading
\* source carries a value, a missing movement heading included.
C20_NoSourceGivesUnavailable ==
    (mounted = "fuseCompassSources" /\ NoSourceCarriesValue(out.input))
        => ~out.result.available

\* the table of base weights, in ten-thousandths
BaseWeight(source) ==
    CASE source = "device" -> DeviceWeight
      [] source = "satellite" -> SatelliteWeight
      [] source = "trajectory" -> TrajectoryWeight
      [] source = "imu" -> ImuWeight
      [] source = "gps" -> GpsWeight

\* C21: every source enters the circular average with its base weight
\* multiplied by its confidence once, so that the fused confidence is the sum
\* of these products over 0.5, capped at 1.
C21_ConfidenceAppliedOnce ==
    (mounted = "fuseCompassSources" /\ out.result.available) =>
        LET sources == out.result.sources
            once == [i \in 1 .. Len(sources) |->
                        BaseWeight(sources[i].source) * sources[i].confidence]
        IN  /\ \A i \in 1 .. Len(sources) : EffectiveWeight(sources[i]) = once[i]
            /\ out.result.confidence =
                   Min(ConfidenceScale,
                       SumOver(once, Len(sources)) \div FullConfidenceWeight)

\* the satellites of the current snapshot that the previous snapshot has too
\* and whose elevation one second ahead is above 10 degrees
SurvivingSatellites(satellites, previousSatellites) ==
    { i \in 1 .. Len(satellites) :
          \E j \in 1 .. Len(previousSatellites) :
              /\ previousSatellites[j].id = satellites[i].id
              /\ 2 * satellites[i].elevation - previousSatellites[j].elevation
                     > VisibleSoon }

\* C22: the triangulator gives a north only from at least 4 observations with
\* elevation above 15 degrees and signal strength above 0.3, and the
\* trajectory predictor gives one only from at least 4 satellites that are in
\* both snapshots and are predicted above 10 degrees.
C22_FourQualifyingSatellites ==
    /\ (mounted = "calculateAdvancedSatelliteTriangulationNorth" /\ out.result.available)
           => Cardinality({ i \in 1 .. Len(out.satellites) :
                                /\ out.satellites[i].elevation > GoodElevation
                                /\ out.satellites[i].signalStrength > GoodSignal })
                  >= MinSatellites
    /\ (mounted = "calculateEnhancedTrajectoryPredictedNorth" /\ out.result.available)
           => /\ out.previousSatellites.present
              /\ Cardinality(SurvivingSatellites(out.satellites,
                                                 out.previousSatellites.satellites))
                     >= MinSatellites

\* a predicted north from exactly four surviving satellites, one of them
\* predicted at 11 degrees
C22_Witness ==
    /\ mounted = "calculateEnhancedTrajectoryPredictedNorth"
    /\ out.result.available
    /\ Cardinality(SurvivingSatellites(out.satellites,
                                       out.previousSatellites.satellites)) = MinSatellites
    /\ \E i \in 1 .. Len(out.satellites) : out.satellites[i].elevation = 16

\* C23: the previous snapshot given to the trajectory predictor at a compass
\* update is the satellites computed and stored by the compass update just
\* before it; the first compass update of a session has no previous snapshot
\* and no trajectory-predicted heading.
C23_PreviousSnapshotIsPrecedingUpdate ==
    [][(nSensorEvents' # nSensorEvents /\ out'.kind = "update") =>
          IF out.kind = "update"
          THEN /\ out'.previousSatellites = Snapshot(out.satellites)
               /\ satelliteHistoryRef'[Len(satelliteHistoryRef')].satellites
                      = out'.satellites
          ELSE /\ satelliteHistoryRef = <<>>
               /\ ~out'.previousSatellites.present
               /\ ~out'.trajectoryPredictedResult.available]_vars

\* a compass update ten minutes after the one before it: the predictor gets
\* the earlier sky, which differs from the current one
C23_Witness ==
    /\ mounted = "compass" /\ out.kind = "update"
    /\ Len(satelliteHistoryRef) >= 2
    /\ out.previousSatellites.present
    /\ out.previousSatellites.satellites
           = satelliteHistoryRef[Len(satelliteHistoryRef) - 1].satellites
    /\ out.previousSatellites.satellites # out.satellites

\* C24: solveKeplerEquation takes at most 20 Newton-Raphson steps, and when
\* the steps have not come to rest by then it returns the mean anomaly.
C24_KeplerFallsBackToMeanAnomaly ==
    mounted = "solveKeplerEquation" =>
        /\ out.loop.iterations <= KeplerIterations
        /\ ~out.loop.converged => out.result = out.meanAnomaly

\* C25: every motion sample that carries acceleration and rotation rate and
\* whose acceleration magnitude is between 0.5 and 15 gets an inertial
\* heading from processIMUData, from the first sample of a session on.
C25_GravitySampleGivesHeading ==
    [][\A sample \in MotionInputs :
          (/\ CompassMotion(sample)
           /\ sample.acceleration /\ sample.rotationRate /\ sample.gravityRange)
              => imuHistoryRef'[Len(imuHistoryRef')].heading # JsNull]_vars

\* C26: the calibrated flag of the IMU filter is true only when at least two
\* of the last 10 motion samples have a heading and the standard deviation of
\* these headings is below 5 degrees.
C26_CalibratedFromActualHeadings ==
    (mounted = "compass" /\ imuFilterRef.calibrated) =>
        LET headings == NonNullHeadings(LastN(imuHistoryRef, CalibrationWindow))
            n == Len(headings)
        IN  /\ n >= 2
            /\ n * SumSquares(headings) - SumSeq(headings) * SumSeq(headings)
                   < CalibratedBelow * CalibratedBelow * n * n

\* the smoothed coordinate is previous * (1 - f) + raw * f to the unit of the
\* coordinates, lies between previous and raw, and strictly between them
\* where f times their difference is a unit or more
BlendedBetween(smoothed, previous, raw, f) ==
    /\ smoothed.k = "num"
    /\ smoothed.v * f.d <= previous.v * (f.d - f.n) + raw.v * f.n
    /\ previous.v * (f.d - f.n) + raw.v * f.n < (smoothed.v + 1) * f.d
    /\ Min(previous.v, raw.v) <= smoothed.v
    /\ smoothed.v <= Max(previous.v, raw.v)
    /\ Abs(raw.v - previous.v) * f.n >= f.d
           => (smoothed.v # previous.v /\ smoothed.v # raw.v)

C28_KalmanRecoversFromInvalidFix ==
    [][\A coords \in GpsFixInputs :
          (GpsHandleSuccess(coords) /\ FiniteCoords(coords)) =>
              /\ IsFinite(location'.latitude)
              /\ IsFinite(location'.longitude)]_vars

\* lastPositionRef and the most recent history entry are the same position
LastPositionIsLatestEntry ==
    LET latest == positionHistoryRef[Len(positionHistoryRef)]
    IN  /\ lastPositionRef.latitude = latest.lat
        /\ lastPositionRef.longitude = latest.lon
        /\ lastPositionRef.accuracy = latest.accuracy
        /\ lastPositionRef.timestamp = latest.timestamp
        /\ lastPositionRef.timestamp = lastGpsUpdateRef

\* C29: after every handler of LocationTracker lastPositionRef is null
\* exactly when the position history is empty, and otherwise it is the most
\* recent history entry and carries the time in lastGpsUpdateRef;
\* updateCountRef counts the accepted fixes.
C29_RefsAgree ==
    /\ [](mounted = "location" =>
              /\ lastPositionRef.set <=> positionHistoryRef # <<>>
              /\ lastPositionRef.set => LastPositionIsLatestEntry)
    /\ [][mounted = "location" =>
              IF \E coords \in FixInputs : HandleSuccess(coords) /\ ValidCoords(coords)
              THEN updateCountRef' = updateCountRef + 1
              ELSE updateCountRef' = updateCountRef]_vars

\* two accepted fixes and a rejected one or none; the timer has just predicted
C29_Witness ==
    /\ mounted = "location" /\ out.op = "tick" /\ out.kind = "update"
    /\ updateCountRef = 2 /\ Len(positionHistoryRef) = 2
    /\ lastPositionRef.set
    /\ lastPositionRef.latitude # positionHistoryRef[1].lat

\* the satellites of one constellation in a result
OfConstellation(result, name) ==
    SelectSeq(result, LAMBDA satellite : satellite.id[1] = name)

\* the satellite in slot i of a constellation as a call with these arguments
\* computes it
SlotSatellite(arguments, params, i) ==
    calculateEnhancedSatelliteOrbit(arguments[1], arguments[2], arguments[3], arguments[4],
                                    calculateGMST(arguments[4]), params,
                                    Slots(params)[i][1], Slots(params)[i][2])

\* the result holds fewer satellites of the constellation than its count,
\* and yet lacks one of its satellites that is above the visible elevation
ExcludedBelowOwnCount(call, params) ==
    /\ Len(OfConstellation(call.result, params.name)) < params.count
    /\ \E i \in 1 .. Len(Slots(params)) :
           LET satellite == SlotSatellite(call.arguments, params, i)
           IN  /\ satellite.elevation > VisibleElevation
               /\ \A j \in 1 .. Len(call.result) : call.result[j].id # satellite.id

\* C30: calculateSatellitePositions limits each constellation by its own
\* count only: a satellite above 5 degrees is in the result whenever the
\* result holds fewer satellites of its constellation than the constellation's
\* count, however many satellites of other constellations it holds.
C30_LimitedByOwnCountOnly ==
    mounted = "calculateSatellitePositions" =>
        \A k \in 1 .. Len(out.calls) :
            \A c \in 1 .. Len(satelliteConstellations) :
                ~ExcludedBelowOwnCount(out.calls[k], satelliteConstellations[c])

====
